---- MODULE Spec2Model ----
(***************************************************************************)
(* Model of the recommendation decision engine of                          *)
(* shopmind-recommendation-service: RecommendationService.recommend,       *)
(* search_products, get_similar_products and refresh_user_vector,          *)
(* SearchService.rerank_product_id_by_semantics, and the helpers and       *)
(* client wrappers they call.                                              *)
(*                                                                         *)
(* Conventions                                                             *)
(*   - Python None / Optional: NONE (the empty tuple) or Some(v) = <<v>>.  *)
(*   - A port response is a record [ok, val]; ok = FALSE is a raise (an    *)
(*     exception or a timeout, which httpx raises as an exception too).    *)
(*   - A float is an exact rational <<n, d>> in lowest terms, d > 0; a     *)
(*     vector is a sequence of rationals.                                  *)
(*   - target_id 0 stands for a falsy target_id (None or 0): the code only *)
(*     tests `if behavior.target_id`.                                      *)
(*   - A product record is [id |-> n]; the rest of the payload is opaque.  *)
(*                                                                         *)
(* Specifications                                                          *)
(*   - Spec: one call of recommend, step by step, from any cache content,  *)
(*     against an upstream that may answer every request in any way.       *)
(*   - SpecLoss: recommend called twice in succession on one fixed       *)
(*     upstream, one await at a time, on a cache whose reads and writes    *)
(*     may fail and whose entry may expire or be deleted at any moment.    *)
(*   - SpecFuse: _compute_user_vector on its own.                          *)
(*   - SpecSearch: search_products and get_similar_products.               *)
(*   - SpecRefresh: refresh_user_vector twice in succession.               *)
(*   - SpecRace: two calls for one user interleaved at their awaits.       *)
(*   - SpecCatalog: the catalog lookup of recommend, search_products and   *)
(*     get_similar_products on a catalog that answers in any way.          *)
(*   - SpecRerank: rerank_product_id_by_semantics.                         *)
(*   - SpecOrder: recommend with the gather completing in every order.     *)
(*   - SpecKeywords: the text _get_user_vector_from_keywords embeds.       *)
(*   - SpecFrame: two interleaved calls, each for one of two users.        *)
(*   - SpecKeep: refresh_user_vector on every answer of its fetches.       *)
(*   - SpecBehavior: _get_user_vector_from_behaviors on an index that      *)
(*     holds the embeddings of some of the products.                       *)
(***************************************************************************)
EXTENDS Integers, Sequences, FiniteSets, TLC

\* ------------------------------------------------------------------ bounds
MaxHits == 2
MaxRecs == 3
MaxLimit == 2
MaxSide == 2
MaxFuseRecs == 3
MaxIndex == 3
MaxPage == 2
MaxCatalog == 3
MaxKeywords == 6

\* ------------------------------------------------------- program constants
min_behavior_count == 3
vector_cache_ttl == 600
default_ttl == 3600

BEHAVIOR_TYPE_SURPORTED == <<"purchase", "add_cart", "like", "share", "view">>

BEHAVIOR_WEIGHTS ==
  [bt \in {"purchase", "add_cart", "like", "share", "view"} |->
     CASE bt = "purchase" -> <<3, 1>>
       [] bt = "add_cart" -> <<5, 2>>
       [] bt = "like"     -> <<2, 1>>
       [] bt = "share"    -> <<3, 2>>
       [] bt = "view"     -> <<1, 1>>]

VECTOR_FUSION_WEIGHTS ==
  [k \in {"behavior", "interest"} |->
     IF k = "behavior" THEN <<3, 5>> ELSE <<2, 5>>]

\* ------------------------------------------------------------ optionals
NONE == <<>>
Some(v) == <<v>>
IsNone(o) == o = <<>>
The(o) == o[1]

Ok(v) == [ok |-> TRUE, val |-> v]
Raised == [ok |-> FALSE, val |-> <<>>]

\* ------------------------------------------------------------ sequences
Range(s) == {s[i] : i \in 1..Len(s)}

SeqUpTo(S, n) == UNION {[1..k -> S] : k \in 0..n}

Take(s, n) == IF Len(s) <= n THEN s ELSE SubSeq(s, 1, n)

RECURSIVE Keep(_, _)
Keep(s, S) ==
  IF s = <<>> THEN <<>>
  ELSE IF Head(s) \in S THEN <<Head(s)>> \o Keep(Tail(s), S)
       ELSE Keep(Tail(s), S)

RECURSIVE Drop(_, _)
Drop(s, S) ==
  IF s = <<>> THEN <<>>
  ELSE IF Head(s) \in S THEN Drop(Tail(s), S)
       ELSE <<Head(s)>> \o Drop(Tail(s), S)

\* first occurrences of s, in order (the `seen` set idiom of the code)
RECURSIVE DedupFrom(_, _)
DedupFrom(s, seen) ==
  IF s = <<>> THEN <<>>
  ELSE IF Head(s) \in seen THEN DedupFrom(Tail(s), seen)
       ELSE <<Head(s)>> \o DedupFrom(Tail(s), seen \cup {Head(s)})

Dedup(s) == DedupFrom(s, {})

\* ------------------------------------------------------------ rationals
RECURSIVE Gcd(_, _)
Gcd(a, b) == IF b = 0 THEN a ELSE Gcd(b, a % b)

Abs(a) == IF a < 0 THEN -a ELSE a

Norm(n, d) ==
  LET g == Gcd(Abs(n), Abs(d))
      s == IF d < 0 THEN -1 ELSE 1
  IN  <<(s * n) \div g, (s * d) \div g>>

RAdd(a, b) == Norm(a[1] * b[2] + b[1] * a[2], a[2] * b[2])
RMul(a, b) == Norm(a[1] * b[1], a[2] * b[2])
RDiv(a, b) == Norm(a[1] * b[2], a[2] * b[1])
RLeq(a, b) == a[1] * b[2] <= b[1] * a[2]
RMax(a, b) == IF RLeq(a, b) THEN b ELSE a
RZero == <<0, 1>>

\* ------------------------------------------------------------- vectors
VScale(v, r) == [i \in 1..Len(v) |-> RMul(v[i], r)]
VAdd(v, w) == [i \in 1..Len(v) |-> RAdd(v[i], w[i])]
VDiv(v, r) == [i \in 1..Len(v) |-> RDiv(v[i], r)]

RECURSIVE VSum(_)
VSum(vs) ==
  IF Len(vs) = 1 THEN vs[1] ELSE VAdd(vs[1], VSum(Tail(vs)))

\* np.mean([a, b], axis=0)
VMean2(a, b) == VDiv(VAdd(a, b), <<2, 1>>)

\* ------------------------------------------------------ value pools
Users == {1}
ProductIds == {1, 2}
Product(n) == [id |-> n]
Vec(n) == << <<n, 1>> >>
\* the embedding the vector index holds for a product
ProductEmbedding(pid) == Vec(3 * pid - 2)
TextVecs == {Vec(2)}
StaleVec == Vec(9)
Labels == {"sport"}
\* raw search_keyword values; "" also stands for a null search_keyword
RawKeywords == {"", " a", "a", "b"}
\* behaviour records the behaviour store may hold: <<behavior_type, target_id>>
BehaviorPool == {<<"purchase", 1>>, <<"view", 1>>, <<"view", 2>>, <<"like", 0>>}
\* purchase-typed records: <<target_type, target_id>>
PurchasePool == {<<"product", 1>>, <<"product", 2>>, <<"order", 1>>}

\* str.strip() on the raw keyword values
Strip(s) == CASE s = " a" -> "a" [] OTHER -> s

\* ProductResponseDto.id_int
id_int(p) == p.id

\* ------------------------------------------------ user service client
\* UserServiceClient.get_search_keywords over the response of
\* get_user_behaviors(behavior_type="search"): a sequence of raw keywords
get_search_keywords(resp) ==
  IF ~resp.ok THEN <<>>
  ELSE LET kept == Drop(resp.val, {s \in RawKeywords : s = "" \/ Strip(s) = ""})
           stripped == [i \in 1..Len(kept) |-> Strip(kept[i])]
       IN  Dedup(stripped)

\* UserServiceClient.get_purchased_products over the response of
\* get_user_behaviors(behavior_type="purchase")
get_purchased_products(resp) ==
  IF ~resp.ok THEN <<>>
  ELSE LET kept == Keep(resp.val, {r \in PurchasePool : r[1] = "product" /\ r[2] # 0})
           ids == [i \in 1..Len(kept) |-> kept[i][2]]
       IN  Dedup(ids)

\* ---------------------------------------------------- recommendation
RECURSIVE SumLen(_, _)
SumLen(g, i) ==
  IF i > Len(BEHAVIOR_TYPE_SURPORTED) THEN 0
  ELSE Len(g[BEHAVIOR_TYPE_SURPORTED[i]]) + SumLen(g, i + 1)

\* sum(len(grouped_behaviors.get(bt, [])) for bt in BEHAVIOR_TYPE_SURPORTED)
behavior_count(g) == SumLen(g, 1)

\* weights recorded in behavior_product_map[pid]
WeightsOf(g, pid) ==
  {BEHAVIOR_WEIGHTS[bt] : bt \in {b \in Range(BEHAVIOR_TYPE_SURPORTED) :
                                     \E i \in 1..Len(g[b]) : g[b][i] = pid}}

RECURSIVE RMaxOf(_)
RMaxOf(S) ==
  LET x == CHOOSE y \in S : TRUE
  IN  IF S = {x} THEN x ELSE RMax(x, RMaxOf(S \ {x}))

\* mutant: the weights of the behaviour types of a product are added up
max_weight_summed(g, pid) ==
  LET S == WeightsOf(g, pid)
      RECURSIVE Total(_)
      Total(R) == IF R = {} THEN RZero
                  ELSE LET x == CHOOSE y \in R : TRUE IN RAdd(x, Total(R \ {x}))
  IN  Total(S)

\* max(weight for _, weight in behavior_product_map[product_id])
max_weight(g, pid) == RMaxOf(WeightsOf(g, pid))

\* all_product_ids: the truthy target ids of the supported behaviour types
all_product_ids(g) ==
  {pid \in UNION {Range(g[bt]) : bt \in Range(BEHAVIOR_TYPE_SURPORTED)} : pid # 0}

RECURSIVE RSum(_)
RSum(rs) == IF rs = <<>> THEN RZero ELSE RAdd(Head(rs), RSum(Tail(rs)))

\* mutant: the weight total counts every product of the behaviours, with
\* or without an embedding
get_user_vector_from_behaviors_weighs_all(g, q) ==
  IF all_product_ids(g) = {} THEN NONE
  ELSE IF ~q.ok \/ q.val = <<>> THEN NONE
  ELSE LET pids == Dedup([i \in 1..Len(q.val) |-> q.val[i].product_id])
           emb(pid) == (CHOOSE i \in 1..Len(q.val) :
                          /\ q.val[i].product_id = pid
                          /\ \A j \in 1..(i - 1) : q.val[j].product_id # pid)
           used == Keep(pids, all_product_ids(g))
           RECURSIVE Total(_)
           Total(R) == IF R = {} THEN RZero
                       ELSE LET x == CHOOSE y \in R : TRUE
                            IN  RAdd(max_weight(g, x), Total(R \ {x}))
           weighted == [i \in 1..Len(used) |->
                          VScale(q.val[emb(used[i])].embedding, max_weight(g, used[i]))]
           total_weight == Total(all_product_ids(g))
       IN  IF used = <<>> \/ total_weight = RZero THEN NONE
           ELSE Some(VDiv(VSum(weighted), total_weight))

\* RecommendationService._get_user_vector_from_behaviors; q is the response
\* of collection.query: a sequence of [product_id, embedding] items
get_user_vector_from_behaviors(g, q) ==
  IF all_product_ids(g) = {} THEN NONE
  ELSE IF ~q.ok \/ q.val = <<>> THEN NONE
  ELSE LET pids == Dedup([i \in 1..Len(q.val) |-> q.val[i].product_id])
           emb(pid) == (CHOOSE i \in 1..Len(q.val) :
                          /\ q.val[i].product_id = pid
                          /\ \A j \in 1..(i - 1) : q.val[j].product_id # pid)
           used == Keep(pids, all_product_ids(g))
           weighted == [i \in 1..Len(used) |->
                          VScale(q.val[emb(used[i])].embedding, max_weight(g, used[i]))]
           total_weight == RSum([i \in 1..Len(used) |-> max_weight(g, used[i])])
       IN  IF used = <<>> \/ total_weight = RZero THEN NONE
           ELSE Some(VDiv(VSum(weighted), total_weight))

\* RecommendationService._get_user_vector_from_interests; interests is the
\* sequence of labels (dict values), e the response of embed_query
get_user_vector_from_interests(interests, e) ==
  IF interests = <<>> THEN NONE
  ELSE IF ~e.ok \/ e.val = <<>> THEN NONE
  ELSE Some(e.val)

\* mutant: the first six keywords are taken
recent_keywords_of_six(keywords) == Take(keywords, 6)

\* keywords[:5]
recent_keywords(keywords) == Take(keywords, 5)

\* " ".join(recent_keywords)
RECURSIVE join(_)
join(texts) ==
  IF texts = <<>> THEN ""
  ELSE IF Len(texts) = 1 THEN texts[1]
  ELSE texts[1] \o " " \o join(Tail(texts))

\* RecommendationService._get_user_vector_from_keywords
get_user_vector_from_keywords(keywords, e) ==
  IF keywords = <<>> THEN NONE
  ELSE IF ~e.ok \/ e.val = <<>> THEN NONE
  ELSE Some(e.val)

\* step 4.1 of _compute_user_vector
base_vector(bv, iv) ==
  IF ~IsNone(bv) /\ ~IsNone(iv)
  THEN Some(VAdd(VScale(The(bv), VECTOR_FUSION_WEIGHTS["behavior"]),
                 VScale(The(iv), VECTOR_FUSION_WEIGHTS["interest"])))
  ELSE IF ~IsNone(bv) THEN bv
  ELSE IF ~IsNone(iv) THEN iv
  ELSE NONE

\* mutant: the search vector is averaged in with weight one third
fuse_vectors_search_underweighted(bv, iv, sv) ==
  LET base == base_vector(bv, iv)
  IN  IF ~IsNone(base) /\ ~IsNone(sv)
      THEN Some(VDiv(VAdd(VScale(The(base), <<2, 1>>), The(sv)), <<3, 1>>))
      ELSE IF ~IsNone(base) THEN base
      ELSE IF ~IsNone(sv) THEN sv
      ELSE NONE

\* step 4.2 of _compute_user_vector
fuse_vectors(bv, iv, sv) ==
  LET base == base_vector(bv, iv)
  IN  IF ~IsNone(base) /\ ~IsNone(sv) THEN Some(VMean2(The(base), The(sv)))
      ELSE IF ~IsNone(base) THEN base
      ELSE IF ~IsNone(sv) THEN sv
      ELSE NONE

\* mutant: the ids of the hits are taken as they come
vector_search_keeps_repeats(resp) ==
  IF ~resp.ok THEN <<>>
  ELSE Drop(resp.val, {0})

\* RecommendationService._vector_search over the response of
\* collection.search: a sequence of hit product ids (0: falsy id)
vector_search(resp) ==
  IF ~resp.ok THEN <<>>
  ELSE Dedup(Drop(resp.val, {0}))

\* the purchased filter and the [:limit] cut
filter_purchased(candidate_product_ids, purchased_product_ids, limit) ==
  IF purchased_product_ids # <<>>
  THEN Take(Drop(candidate_product_ids, Range(purchased_product_ids)), limit)
  ELSE Take(candidate_product_ids, limit)

\* mutant: the records are returned in the order of the catalog response
sort_products_in_catalog_order(filtered_ids, products) ==
  SelectSeq(products, LAMBDA p : id_int(p) \in Range(filtered_ids))

\* [id_to_product[pid] for pid in filtered_ids if pid in id_to_product]
sort_products(filtered_ids, products) ==
  LET have == {id_int(products[i]) : i \in 1..Len(products)}
      kept == Keep(filtered_ids, have)
      last(pid) == CHOOSE i \in 1..Len(products) :
                     /\ id_int(products[i]) = pid
                     /\ \A j \in (i + 1)..Len(products) : id_int(products[j]) # pid
  IN  [i \in 1..Len(kept) |-> products[last(kept[i])]]

\* the sufficiency test of recommend (step 3)
has_interests(interests) == interests # <<>>

\* mutant: one behaviour is enough
has_enough_behaviors_of_one(g) == behavior_count(g) >= 1

\* behavior_count >= self.min_behavior_count
has_enough_behaviors(g) == behavior_count(g) >= min_behavior_count

has_search_keywords(keywords) == Len(keywords) > 0

\* mutant: the search keywords do not count
sufficient_without_keywords(interests, g, keywords) ==
  has_interests(interests) \/ has_enough_behaviors(g)

\* if has_interests or has_enough_behaviors or has_search_keywords
sufficient(interests, g, keywords) ==
  has_interests(interests) \/ has_enough_behaviors(g) \/ has_search_keywords(keywords)

\* ------------------------------------------------- port response sets
Min(a, b) == IF a <= b THEN a ELSE b

Distinct(s) == \A i, j \in 1..Len(s) : i # j => s[i] # s[j]

\* get_user_interests: the DTO's interests (label sequence) or a raise
InterestResponses == {Raised} \cup {Ok(s) : s \in SeqUpTo(Labels, 1)}

\* grouped_behaviors built from the records the behaviour store holds
Group(recs) ==
  [bt \in Range(BEHAVIOR_TYPE_SURPORTED) |->
     LET mine == Keep(recs, {r \in Range(recs) : r[1] = bt})
     IN  [i \in 1..Len(mine) |-> mine[i][2]]]

EmptyGrouped == Group(<<>>)

\* get_user_behaviors_grouped: a grouped map or a raise
GroupedResponses ==
  {Raised} \cup {Ok(Group(recs)) : recs \in SeqUpTo(BehaviorPool, MaxRecs)}

\* get_user_behaviors(behavior_type="search")
SearchBehaviorResponses ==
  {Raised} \cup {Ok(s) : s \in SeqUpTo(RawKeywords, MaxSide)}

\* get_user_behaviors(behavior_type="purchase"): val is what the behaviour
\* store holds, ok whether the call delivered it
PurchaseResponses ==
  {[ok |-> b, val |-> s] : b \in BOOLEAN, s \in SeqUpTo(PurchasePool, MaxSide)}

\* embed_query
EmbedResponses == {Raised, Ok(<<>>)} \cup {Ok(v) : v \in TextVecs}

\* collection.query(product_id in ids)
QueryResponses(ids) ==
  {Raised} \cup
  {Ok(s) : s \in {t \in SeqUpTo({[product_id |-> i, embedding |-> ProductEmbedding(i)] : i \in ids},
                                 Cardinality(ids)) : Distinct(t)}}

\* collection.search(limit=top_k)
SearchResponses(top_k) ==
  {Raised} \cup {Ok(s) : s \in SeqUpTo(ProductIds \cup {0}, Min(MaxHits, top_k))}

\* get_products_by_ids(ids): records of any subset of ids, in any order, or
\* a raise; `if not product_ids: return []` comes before the request
CatalogResponses(ids) ==
  IF ids = <<>> THEN {Ok(<<>>)}
  ELSE {Raised} \cup
       {Ok(s) : s \in {t \in SeqUpTo({Product(n) : n \in Range(ids)}, Len(ids)) :
                         Distinct(t)}}

\* get_hot_products(limit)
HotResponses ==
  {Raised, Ok(<<>>), Ok(<<Product(2)>>), Ok(<<Product(2), Product(1)>>)}

\* the product ids of the user's purchase records (the purchased set)
PurchasedSet(recs) ==
  {recs[i][2] : i \in {j \in 1..Len(recs) : recs[j][1] = "product" /\ recs[j][2] # 0}}

\* ------------------------------------------------------------- state
VARIABLES
  cache,    \* Redis: user id -> NONE or Some([vector, ttl])
  pc,       \* position of the running call ("idle" when none)
  loc,      \* locals of the running call
  result,   \* what the call returned: [products, strategy]
  log,      \* what the running call did at its ports
  up,       \* the fixed upstream of the calls (NONE: a free upstream)
  prev      \* what a specification records of the calls made so far

vars == <<cache, pc, loc, result, log, up, prev>>

SignalFetches == {"interests", "grouped", "keywords"}

\* what the log tells apart: the three fetches of the gather, the fusion
\* (collection.query, embed_query), the retrieval (collection.search,
\* get_purchased_products, get_products_by_ids) and the hot-products fetch
Stages == SignalFetches \cup {"fuse", "retrieve", "hot"}

NoLoc ==
  [user_id |-> 0, limit |-> 0, user_vector |-> NONE,
   candidate_product_ids |-> <<>>, purchased_product_ids |-> <<>>,
   filtered_ids |-> <<>>, pending |-> {},
   interests |-> <<>>, grouped_behaviors |-> EmptyGrouped, search_keywords |-> <<>>,
   behavior_vector |-> NONE, interest_vector |-> NONE, search_vector |-> NONE]

NoResult == [products |-> <<>>, strategy |-> "none"]

\* counts reported by the "user data fetched" log line; -1: not fetched
NoSig == [interests_count |-> -1, behavior_count |-> -1, search_keyword_count |-> -1]

NoLog ==
  [hit |-> FALSE,         \* the cache read returned a vector
   invoked |-> {},        \* stages entered (Stages)
   failed |-> {},         \* stages in which a port call raised
   excepted |-> FALSE,    \* the handler of recommend's try ran
   hot |-> NONE,          \* response of the last hot-products fetch
   hot_calls |-> 0,
   sig |-> NoSig,
   cold |-> FALSE,        \* the gather found no interests, too few behaviours, no keywords
   fuse |-> "none",       \* "none" | "absent" | "vector"
   fused |-> NONE,        \* the vector _compute_user_vector returned
   sets |-> <<>>,         \* cache writes issued: [user_id, vector, ttl]
   set_failed |-> FALSE,  \* the cache write did not go through
   repeated |-> FALSE,    \* the last vector search answered with a repeated id
   get_failed |-> FALSE,  \* the cache read did not go through
   path |-> "none",       \* retrieval that produced the result: "cache" | "fused"
   kept |-> {},           \* ids the cache-branch retrieval got records for
   bought |-> {},         \* the user's purchased set at that retrieval
   catalog |-> {}]        \* ids of the catalog records returned to that retrieval

\* the counts of a user without signals
no_signals(sig) ==
  /\ sig.interests_count = 0
  /\ sig.behavior_count < min_behavior_count
  /\ sig.search_keyword_count = 0

NoPrev == [result |-> NoResult, fused |-> NONE, user_id |-> 0, limit |-> 0,
           joined |-> "none"]

CachedVectors == {NONE, Some([vector |-> StaleVec, ttl |-> vector_cache_ttl])}

\* the call in flight and the cache, as one value
St == [cache |-> cache, pc |-> pc, loc |-> loc, result |-> result, log |-> log]

Init ==
  /\ cache \in [Users -> CachedVectors]
  /\ pc = "idle"
  /\ loc = NoLoc
  /\ result = NoResult
  /\ log = NoLog
  /\ up = NONE
  /\ prev = NoPrev

\* mutant: the hot list of the cold-start path is tagged "fallback"
cold_start_outcome_tagged_fallback(products) ==
  [pc |-> "done", products |-> products, strategy |-> "fallback"]

\* mutant: an empty hot list of the cold-start path is tagged "cold_start"
cold_start_outcome_never_fallback(products) ==
  [pc |-> "done", products |-> products, strategy |-> "cold_start"]

\* --------------------------------------------------- outcome rules
\* recommend, step 4: the hot list fetched on the cold-start path
cold_start_outcome(products) ==
  IF products # <<>>
  THEN [pc |-> "done", products |-> products, strategy |-> "cold_start"]
  ELSE [pc |-> "done", products |-> <<>>, strategy |-> "fallback"]

\* mutant: the handler drops the hot list it fetched
except_outcome_drops_list(hot) ==
  [pc |-> "done", products |-> <<>>, strategy |-> "fallback"]

\* recommend, the handler of the outer try: hot is the response of the
\* hot-products fetch made there
except_outcome(hot) ==
  IF hot.ok
  THEN [pc |-> "done", products |-> hot.val, strategy |-> "fallback"]
  ELSE [pc |-> "done", products |-> <<>>, strategy |-> "fallback"]

\* mutant: the cache branch never returns
after_cache_retrieval_never_returns(sorted_products) == "r_gather_start"

\* mutant: the cache branch returns whatever it retrieved
after_cache_retrieval_returns_empty(sorted_products) == "done"

\* recommend, cache branch: where the call goes with the sorted products
after_cache_retrieval(sorted_products) ==
  IF sorted_products # <<>> THEN "done" ELSE "r_gather_start"

\* mutant: the gather sits outside the try, its exception reaches the caller
after_gather_raise_propagates == "raised"

\* recommend: what an exception raised by asyncio.gather leads to
after_gather_raise == "r_except"

\* recommend, step 3: where the call goes after the sufficiency test
after_sufficiency(interests, g, keywords) ==
  IF sufficient(interests, g, keywords) THEN "p_behavior" ELSE "r_hot"

\* mutant: an absent fusion goes on to the vector search
after_fuse_searches_absent(user_vector) ==
  IF IsNone(user_vector) THEN "p_search" ELSE "p_cache_set"

\* mutant: the fused vector is not written to the cache
after_fuse_skips_cache(user_vector) ==
  IF IsNone(user_vector) THEN "r_hot" ELSE "p_search"

\* _personalized_recommend_with_cache: where the call goes with the vector
\* _compute_user_vector returned
after_fuse(user_vector) ==
  IF IsNone(user_vector) THEN "r_hot" ELSE "p_cache_set"

\* the purchased ids handed to the filter
ids_to_exclude(purchased_product_ids) == purchased_product_ids

\* RedisClient.get_user_vector
get_user_vector(entry, fails) ==
  IF fails \/ IsNone(entry) THEN NONE ELSE Some(The(entry).vector)

\* RedisClient.set_user_vector: the entry written (ttl NONE: the default)
set_user_vector(vector, ttl) ==
  Some([vector |-> vector, ttl |-> IF IsNone(ttl) THEN default_ttl ELSE The(ttl)])

\* RedisClient.delete_user_vector: the entry after redis.delete(key); a
\* failure of the delete is swallowed and leaves the entry
delete_user_vector(entry, fails) == IF fails THEN entry ELSE NONE

\* mutant: a write is averaged into the entry it finds
setex_merges(old, entry) ==
  IF IsNone(old) THEN entry
  ELSE Some([The(entry) EXCEPT !.vector = VDiv(VAdd(The(old).vector, @), <<2, 1>>)])

\* redis.setex(key, expire, value): the value written replaces the entry
setex(old, entry) == entry

\* mutant: a failed cache write leaves _personalized_recommend_with_cache
\* through its handler
after_cache_set_write_raises(fails) == IF fails THEN "r_hot" ELSE "p_search"

\* RedisClient.set_user_vector returns normally whether or not the write
\* went through (its except block logs and swallows)
after_cache_set(fails) == "p_search"

\* the ttl recommend passes to set_user_vector
cache_ttl_argument == Some(vector_cache_ttl)

\* mutant: the gather returns once two of the fetches have completed
after_fetch_joins_two(pending) ==
  IF Cardinality(pending) <= 1 THEN "r_sufficiency" ELSE "r_gather"

\* where the gather goes when a fetch completes without raising
after_fetch(pending) == IF pending = {} THEN "r_sufficiency" ELSE "r_gather"

\* ------------------------------------------- the steps of recommend
\* Each step takes the call in flight (st) and the response of the port it
\* awaits, and gives the call after the step.

\* recommend is entered
begin_recommend(st, u, limit) ==
  [st EXCEPT !.pc = "r_cache_get",
             !.loc = [NoLoc EXCEPT !.user_id = u, !.limit = limit],
             !.log = NoLog,
             !.result = NoResult]

\* mutant: a hit writes the vector it read back, with the default lifetime
step_cache_get_renews(st, fails) ==
  LET cached_vector == get_user_vector(st.cache[st.loc.user_id], fails)
  IN  IF ~IsNone(cached_vector)
      THEN [st EXCEPT !.pc = "r_hit_purchased",
                      !.loc.user_vector = cached_vector,
                      !.cache[st.loc.user_id] = set_user_vector(The(cached_vector), NONE),
                      !.log.hit = TRUE]
      ELSE [st EXCEPT !.pc = "r_gather_start",
                      !.log.get_failed = fails]

\* recommend, step 1: cached_vector = await redis_client.get_user_vector
step_cache_get(st, fails) ==
  LET cached_vector == get_user_vector(st.cache[st.loc.user_id], fails)
  IN  IF ~IsNone(cached_vector)
      THEN [st EXCEPT !.pc = "r_hit_purchased",
                      !.loc.user_vector = cached_vector,
                      !.log.hit = TRUE]
      ELSE [st EXCEPT !.pc = "r_gather_start",
                      !.log.get_failed = fails]

\* cache branch: get_purchased_products
step_hit_purchased(st, resp) ==
  [st EXCEPT !.pc = "r_hit_search",
             !.loc.purchased_product_ids = get_purchased_products(resp),
             !.log.invoked = @ \cup {"retrieve"},
             !.log.failed = IF resp.ok THEN @ ELSE @ \cup {"retrieve"},
             !.log.bought = PurchasedSet(resp.val)]

\* cache branch: _vector_search and the purchased filter
step_hit_search(st, resp) ==
  LET candidate_product_ids == vector_search(resp)
      filtered_ids == filter_purchased(candidate_product_ids,
                                       ids_to_exclude(st.loc.purchased_product_ids),
                                       st.loc.limit)
  IN  [st EXCEPT !.pc = IF filtered_ids # <<>> THEN "r_hit_catalog" ELSE "r_gather_start",
                 !.loc.purchased_product_ids = <<>>,
                 !.loc.filtered_ids = filtered_ids,
                 !.log.invoked = @ \cup {"retrieve"},
                 !.log.repeated = ~Distinct(resp.val),
                 !.log.failed = IF resp.ok THEN @ ELSE @ \cup {"retrieve"}]

\* cache branch: get_products_by_ids and the re-sort; a raise leaves the try
step_hit_catalog(st, resp) ==
  IF ~resp.ok
  THEN [st EXCEPT !.pc = "r_except",
                  !.log.invoked = @ \cup {"retrieve"},
                  !.log.failed = @ \cup {"retrieve"}]
  ELSE LET sorted_products == sort_products(st.loc.filtered_ids, resp.val)
           to == after_cache_retrieval(sorted_products)
       IN  [st EXCEPT !.pc = to,
                      !.log.invoked = @ \cup {"retrieve"},
                      !.log.path = IF to = "done" THEN "cache" ELSE @,
                      !.log.catalog = {id_int(resp.val[i]) : i \in 1..Len(resp.val)},
                      !.log.kept = {id_int(sorted_products[i]) :
                                      i \in 1..Len(sorted_products)},
                      !.result = IF to = "done"
                                 THEN [products |-> sorted_products,
                                       strategy |-> "personalized"]
                                 ELSE @]

\* recommend, step 2: the three fetches are handed to asyncio.gather
step_gather_start(st) ==
  [st EXCEPT !.pc = "r_gather",
             !.loc = [NoLoc EXCEPT !.user_id = st.loc.user_id, !.limit = st.loc.limit,
                                   !.pending = SignalFetches],
             !.log.invoked = @ \cup SignalFetches,
             !.log.bought = {},
             !.log.catalog = {}]

\* get_user_interests completes: its raise is the gather's raise
step_fetch_interests(st, resp) ==
  IF ~resp.ok
  THEN [st EXCEPT !.pc = after_gather_raise,
                  !.loc.pending = {},
                  !.log.failed = @ \cup {"interests"}]
  ELSE [st EXCEPT !.pc = after_fetch(st.loc.pending \ {"interests"}),
                  !.loc.pending = @ \ {"interests"},
                  !.loc.interests = resp.val,
                  !.log.sig.interests_count = Len(resp.val)]

\* get_user_behaviors_grouped completes: its raise is the gather's raise
step_fetch_grouped(st, resp) ==
  IF ~resp.ok
  THEN [st EXCEPT !.pc = after_gather_raise,
                  !.loc.pending = {},
                  !.log.failed = @ \cup {"grouped"}]
  ELSE [st EXCEPT !.pc = after_fetch(st.loc.pending \ {"grouped"}),
                  !.loc.pending = @ \ {"grouped"},
                  !.loc.grouped_behaviors = resp.val,
                  !.log.sig.behavior_count = behavior_count(resp.val)]

\* get_search_keywords completes: it swallows a raise of get_user_behaviors
step_fetch_keywords(st, resp) ==
  LET search_keywords == get_search_keywords(resp)
  IN  [st EXCEPT !.pc = after_fetch(st.loc.pending \ {"keywords"}),
                 !.loc.pending = @ \ {"keywords"},
                 !.loc.search_keywords = search_keywords,
                 !.log.sig.search_keyword_count = Len(search_keywords),
                 !.log.failed = IF resp.ok THEN @ ELSE @ \cup {"keywords"}]

\* recommend, step 3: grouped_behaviors if has_enough_behaviors else None
step_sufficiency(st) ==
  LET to == after_sufficiency(st.loc.interests, st.loc.grouped_behaviors,
                              st.loc.search_keywords)
  IN  [st EXCEPT !.pc = to,
                 !.loc.grouped_behaviors = IF has_enough_behaviors(@) THEN @
                                           ELSE EmptyGrouped,
                 !.log.cold = no_signals(st.log.sig),
                 !.log.invoked = IF to = "p_behavior" THEN @ \cup {"fuse"} ELSE @]

\* _compute_user_vector asks collection.query for the behaviour vector
asks_query(g) == has_enough_behaviors(g) /\ all_product_ids(g) # {}

\* _compute_user_vector, step 1: the behaviour vector
step_fuse_behavior(st, resp) ==
  LET g == st.loc.grouped_behaviors
  IN  [st EXCEPT !.pc = "p_interest",
                 !.loc.behavior_vector = IF has_enough_behaviors(g)
                                         THEN get_user_vector_from_behaviors(g, resp)
                                         ELSE NONE,
                 !.loc.grouped_behaviors = EmptyGrouped,
                 !.log.sig = NoSig,
                 !.log.failed = IF asks_query(g) /\ ~resp.ok THEN @ \cup {"fuse"} ELSE @]

\* mutant: a raise of the interest embedding leaves the fusion
step_fuse_interest_aborts(st, resp) ==
  IF st.loc.interests # <<>> /\ ~resp.ok
  THEN [st EXCEPT !.pc = "r_except", !.log.failed = @ \cup {"fuse"}]
  ELSE [st EXCEPT !.pc = "p_keywords",
                  !.loc.interest_vector =
                     get_user_vector_from_interests(st.loc.interests, resp),
                  !.loc.interests = <<>>]

\* _compute_user_vector, step 2: the interest vector
step_fuse_interest(st, resp) ==
  LET asks == st.loc.interests # <<>>
  IN  [st EXCEPT !.pc = "p_keywords",
                 !.loc.interest_vector =
                    get_user_vector_from_interests(st.loc.interests, resp),
                 !.loc.interests = <<>>,
                 !.log.failed = IF asks /\ ~resp.ok THEN @ \cup {"fuse"} ELSE @]

\* _compute_user_vector, steps 3 and 4: the search vector and the fusion
step_fuse_keywords(st, resp) ==
  LET asks == st.loc.search_keywords # <<>>
      search_vector == get_user_vector_from_keywords(
                         recent_keywords(st.loc.search_keywords), resp)
      user_vector == fuse_vectors(st.loc.behavior_vector, st.loc.interest_vector,
                                  search_vector)
  IN  [st EXCEPT !.pc = after_fuse(user_vector),
                 !.loc = [NoLoc EXCEPT !.user_id = st.loc.user_id,
                                       !.limit = st.loc.limit,
                                       !.user_vector = user_vector],
                 !.log.failed = IF asks /\ ~resp.ok THEN @ \cup {"fuse"} ELSE @,
                 !.log.fuse = IF IsNone(user_vector) THEN "absent" ELSE "vector",
                 !.log.fused = user_vector]

\* mutant: the write goes under one key shared by every user
step_cache_set_under_shared_key(st, fails) ==
  LET entry == set_user_vector(The(st.loc.user_vector), cache_ttl_argument)
  IN  [st EXCEPT !.pc = after_cache_set(fails),
                 !.cache = IF fails THEN @
                           ELSE [v \in DOMAIN @ |-> setex(@[v], entry)],
                 !.log.set_failed = fails,
                 !.log.sets = Append(@, [user_id |-> st.loc.user_id,
                                         vector |-> The(entry).vector,
                                         ttl |-> The(entry).ttl])]

\* _personalized_recommend_with_cache: redis_client.set_user_vector, which
\* swallows a failure of the write
step_cache_set(st, fails) ==
  LET entry == set_user_vector(The(st.loc.user_vector), cache_ttl_argument)
  IN  [st EXCEPT !.pc = after_cache_set(fails),
                 !.cache = IF fails THEN @
                           ELSE [@ EXCEPT ![st.loc.user_id] = setex(@, entry)],
                 !.log.set_failed = fails,
                 !.log.sets = Append(@, [user_id |-> st.loc.user_id,
                                         vector |-> The(entry).vector,
                                         ttl |-> The(entry).ttl])]

\* _personalized_recommend_with_cache: _vector_search
step_search(st, resp) ==
  LET candidate_product_ids == vector_search(resp)
  IN  [st EXCEPT !.pc = IF candidate_product_ids = <<>> THEN "r_hot" ELSE "p_purchased",
                 !.loc.candidate_product_ids = candidate_product_ids,
                 !.log.invoked = @ \cup {"retrieve"},
                 !.log.repeated = ~Distinct(resp.val),
                 !.log.failed = IF resp.ok THEN @ ELSE @ \cup {"retrieve"}]

\* _personalized_recommend_with_cache: get_purchased_products and the filter
step_purchased(st, resp) ==
  LET purchased_product_ids == get_purchased_products(resp)
      filtered_ids == filter_purchased(st.loc.candidate_product_ids,
                                       ids_to_exclude(purchased_product_ids),
                                       st.loc.limit)
  IN  [st EXCEPT !.pc = IF filtered_ids = <<>> THEN "r_hot" ELSE "p_catalog",
                 !.loc.candidate_product_ids = <<>>,
                 !.loc.filtered_ids = filtered_ids,
                 !.log.failed = IF resp.ok THEN @ ELSE @ \cup {"retrieve"},
                 !.log.bought = PurchasedSet(resp.val)]

\* _personalized_recommend_with_cache: get_products_by_ids and the re-sort;
\* a raise is caught there and turned into an empty list
step_catalog(st, resp) ==
  LET products == IF resp.ok THEN sort_products(st.loc.filtered_ids, resp.val) ELSE <<>>
  IN  [st EXCEPT !.pc = IF products # <<>> THEN "done" ELSE "r_hot",
                 !.log.failed = IF resp.ok THEN @ ELSE @ \cup {"retrieve"},
                 !.log.path = IF products # <<>> THEN "fused" ELSE @,
                 !.log.catalog = IF resp.ok
                                 THEN {id_int(resp.val[i]) : i \in 1..Len(resp.val)}
                                 ELSE {},
                 !.result = IF products # <<>>
                            THEN [products |-> products, strategy |-> "personalized"]
                            ELSE @]

\* recommend, step 4: get_hot_products on the cold-start path; its raise
\* leaves the try
step_hot(st, resp) ==
  LET out == cold_start_outcome(resp.val)
      lg == [st.log EXCEPT !.invoked = @ \cup {"hot"},
                           !.failed = IF resp.ok THEN @ ELSE @ \cup {"hot"},
                           !.hot = Some(resp),
                           !.hot_calls = @ + 1,
                           !.bought = {},
                           !.catalog = {}]
      lc == [NoLoc EXCEPT !.user_id = st.loc.user_id, !.limit = st.loc.limit]
  IN  IF ~resp.ok
      THEN [st EXCEPT !.pc = "r_except", !.loc = lc, !.log = lg]
      ELSE [st EXCEPT !.pc = out.pc, !.loc = lc, !.log = lg,
                      !.result = [products |-> out.products, strategy |-> out.strategy]]

\* recommend, the handler of the outer try: get_hot_products again
step_except(st, resp) ==
  LET out == except_outcome(resp)
  IN  [st EXCEPT !.pc = out.pc,
                 !.loc = [NoLoc EXCEPT !.user_id = st.loc.user_id,
                                       !.limit = st.loc.limit],
                 !.log = [@ EXCEPT !.invoked = @ \cup {"hot"},
                                   !.failed = IF resp.ok THEN @ ELSE @ \cup {"hot"},
                                   !.excepted = TRUE,
                                   !.hot = Some(resp),
                                   !.hot_calls = @ + 1,
                                   !.bought = {},
                                   !.catalog = {}],
                 !.result = [products |-> out.products, strategy |-> out.strategy]]

\* ----------------------------------------------------------- actions
Apply(n) ==
  /\ cache' = n.cache
  /\ pc' = n.pc
  /\ loc' = n.loc
  /\ result' = n.result
  /\ log' = n.log
  /\ UNCHANGED <<up, prev>>

BeginRecommend(u, limit) ==
  /\ pc = "idle"
  /\ IsNone(up)
  /\ LET n == begin_recommend(St, u, limit)
     IN  /\ pc' = n.pc
         /\ loc' = n.loc
         /\ log' = n.log
         /\ result' = n.result
  /\ UNCHANGED <<cache, up, prev>>

CacheGet(fails) == pc = "r_cache_get" /\ Apply(step_cache_get(St, fails))

HitPurchased(resp) == pc = "r_hit_purchased" /\ Apply(step_hit_purchased(St, resp))

HitSearch(resp) == pc = "r_hit_search" /\ Apply(step_hit_search(St, resp))

HitCatalog(resp) == pc = "r_hit_catalog" /\ Apply(step_hit_catalog(St, resp))

GatherStart == pc = "r_gather_start" /\ Apply(step_gather_start(St))

FetchInterests(resp) ==
  /\ pc = "r_gather"
  /\ "interests" \in loc.pending
  /\ Apply(step_fetch_interests(St, resp))

FetchGrouped(resp) ==
  /\ pc = "r_gather"
  /\ "grouped" \in loc.pending
  /\ Apply(step_fetch_grouped(St, resp))

FetchKeywords(resp) ==
  /\ pc = "r_gather"
  /\ "keywords" \in loc.pending
  /\ Apply(step_fetch_keywords(St, resp))

Sufficiency == pc = "r_sufficiency" /\ Apply(step_sufficiency(St))

\* the responses a port call that is not made is given: none
NotAsked == {Raised}

FuseBehavior(resp) ==
  /\ pc = "p_behavior"
  /\ resp \in (IF asks_query(loc.grouped_behaviors)
               THEN QueryResponses(all_product_ids(loc.grouped_behaviors))
               ELSE NotAsked)
  /\ Apply(step_fuse_behavior(St, resp))

FuseInterest(resp) ==
  /\ pc = "p_interest"
  /\ resp \in (IF loc.interests # <<>> THEN EmbedResponses ELSE NotAsked)
  /\ Apply(step_fuse_interest(St, resp))

FuseKeywords(resp) ==
  /\ pc = "p_keywords"
  /\ resp \in (IF loc.search_keywords # <<>> THEN EmbedResponses ELSE NotAsked)
  /\ Apply(step_fuse_keywords(St, resp))

CacheSet(fails) == pc = "p_cache_set" /\ Apply(step_cache_set(St, fails))

PSearch(resp) == pc = "p_search" /\ Apply(step_search(St, resp))

PPurchased(resp) == pc = "p_purchased" /\ Apply(step_purchased(St, resp))

PCatalog(resp) == pc = "p_catalog" /\ Apply(step_catalog(St, resp))

Hot(resp) == pc = "r_hot" /\ Apply(step_hot(St, resp))

Except(resp) == pc = "r_except" /\ Apply(step_except(St, resp))

\* the TTL of a cache entry runs out
CacheExpire(u) ==
  /\ ~IsNone(cache[u])
  /\ cache' = [cache EXCEPT ![u] = NONE]
  /\ UNCHANGED <<pc, loc, result, log, up, prev>>

\* RedisClient.delete_user_vector(u): no call of the service makes it;
\* another holder of the client may, between any two awaits
CacheDelete(u, fails) ==
  /\ cache' = [cache EXCEPT ![u] = delete_user_vector(@, fails)]
  /\ UNCHANGED <<pc, loc, result, log, up, prev>>

Next ==
  \/ \E u \in Users, limit \in 1..MaxLimit : BeginRecommend(u, limit)
  \/ \E fails \in BOOLEAN : CacheGet(fails)
  \/ \E resp \in PurchaseResponses : HitPurchased(resp)
  \/ \E resp \in SearchResponses(loc.limit * 3) : HitSearch(resp)
  \/ \E resp \in CatalogResponses(loc.filtered_ids) : HitCatalog(resp)
  \/ GatherStart
  \/ \E resp \in InterestResponses : FetchInterests(resp)
  \/ \E resp \in GroupedResponses : FetchGrouped(resp)
  \/ \E resp \in SearchBehaviorResponses : FetchKeywords(resp)
  \/ Sufficiency
  \/ \E resp \in QueryResponses(ProductIds) : FuseBehavior(resp)
  \/ \E resp \in EmbedResponses : FuseInterest(resp)
  \/ \E resp \in EmbedResponses : FuseKeywords(resp)
  \/ \E fails \in BOOLEAN : CacheSet(fails)
  \/ \E resp \in SearchResponses(loc.limit * 3) : PSearch(resp)
  \/ \E resp \in PurchaseResponses : PPurchased(resp)
  \/ \E resp \in CatalogResponses(loc.filtered_ids) : PCatalog(resp)
  \/ \E resp \in HotResponses : Hot(resp)
  \/ \E resp \in HotResponses : Except(resp)
  \/ \E u \in Users : CacheExpire(u)
  \/ \E u \in Users, fails \in BOOLEAN : CacheDelete(u, fails)

Spec == Init /\ [][Next]_vars

\* ------------------------------------------- a call on a fixed upstream
\* A fixed upstream answers a request the same way whenever it is asked,
\* its failures included.

Reverse(s) == [i \in 1..Len(s) |-> s[Len(s) + 1 - i]]

RECURSIVE Ascending(_)
Ascending(S) ==
  IF S = {} THEN <<>>
  ELSE LET m == CHOOSE x \in S : \A y \in S : x <= y
       IN  <<m>> \o Ascending(S \ {m})

Upstreams ==
  [interests : InterestResponses,
   grouped   : {Raised, Ok(EmptyGrouped),
                Ok(Group(<< <<"purchase", 1>>, <<"view", 1>>, <<"view", 2>> >>))},
   keywords  : {Ok(<<>>), Ok(<<"a">>)},
   embed     : {Raised} \cup {Ok(v) : v \in TextVecs},
   query_ok  : BOOLEAN,
   search    : {Raised, Ok(<<>>), Ok(<<1>>), Ok(<<1, 2>>), Ok(<<2, 1>>)},
   purchases : {Ok(<<>>), Ok(<< <<"product", 1>> >>),
                [ok |-> FALSE, val |-> << <<"product", 1>> >>]},
   catalog_ok  : BOOLEAN,
   catalog_has : SUBSET ProductIds,
   hot       : {Raised, Ok(<<>>), Ok(<<Product(2), Product(1)>>)}]

\* get_products_by_ids(ids) on the upstream w; no request is made for the
\* empty list
catalog_of(w, ids) ==
  IF ids = <<>> THEN Ok(<<>>)
  ELSE IF w.catalog_ok
  THEN Ok(LET have == Reverse(Keep(ids, w.catalog_has))
          IN  [i \in 1..Len(have) |-> Product(have[i])])
  ELSE Raised

\* collection.query(product_id in ids) on the upstream w
query_of(w, ids) ==
  IF w.query_ok
  THEN Ok(LET s == Ascending(ids)
          IN  [i \in 1..Len(s) |-> [product_id |-> s[i],
                                    embedding |-> ProductEmbedding(s[i])]])
  ELSE Raised

\* the fetch of the gather that completes next
next_fetch(pending) ==
  IF "interests" \in pending THEN "interests"
  ELSE IF "grouped" \in pending THEN "grouped"
  ELSE "keywords"

\* one step of the call st on the upstream w; the cache itself is reliable
step_on(st, w) ==
  CASE st.pc = "r_cache_get"     -> step_cache_get(st, FALSE)
    [] st.pc = "r_hit_purchased" -> step_hit_purchased(st, w.purchases)
    [] st.pc = "r_hit_search"    -> step_hit_search(st, w.search)
    [] st.pc = "r_hit_catalog"   -> step_hit_catalog(st, catalog_of(w, st.loc.filtered_ids))
    [] st.pc = "r_gather_start"  -> step_gather_start(st)
    [] st.pc = "r_gather"        ->
         (CASE next_fetch(st.loc.pending) = "interests" -> step_fetch_interests(st, w.interests)
            [] next_fetch(st.loc.pending) = "grouped"   -> step_fetch_grouped(st, w.grouped)
            [] OTHER                                    -> step_fetch_keywords(st, w.keywords))
    [] st.pc = "r_sufficiency"   -> step_sufficiency(st)
    [] st.pc = "p_behavior"      ->
         step_fuse_behavior(st, query_of(w, all_product_ids(st.loc.grouped_behaviors)))
    [] st.pc = "p_interest"      -> step_fuse_interest(st, w.embed)
    [] st.pc = "p_keywords"      -> step_fuse_keywords(st, w.embed)
    [] st.pc = "p_cache_set"     -> step_cache_set(st, FALSE)
    [] st.pc = "p_search"        -> step_search(st, w.search)
    [] st.pc = "p_purchased"     -> step_purchased(st, w.purchases)
    [] st.pc = "p_catalog"       -> step_catalog(st, catalog_of(w, st.loc.filtered_ids))
    [] st.pc = "r_hot"           -> step_hot(st, w.hot)
    [] st.pc = "r_except"        -> step_except(st, w.hot)

\* recommend(user_id, limit) run to its return on the upstream w
RECURSIVE run_on(_, _)
run_on(st, w) == IF st.pc \in {"done", "raised"} THEN st ELSE run_on(step_on(st, w), w)

recommend_on(st, w, u, limit) == run_on(begin_recommend(st, u, limit), w)

\* one step of the call st on the upstream w and a cache whose read
\* (get_fails) or write (set_fails) does not go through
step_with_cache(st, w, get_fails, set_fails) ==
  CASE st.pc = "r_cache_get" -> step_cache_get(st, get_fails)
    [] st.pc = "p_cache_set" -> step_cache_set(st, set_fails)
    [] OTHER                 -> step_on(st, w)

\* ---------------------------------- two calls in succession, cache lossy
\* One client calls recommend(u, limit) twice in succession on one fixed
\* upstream; each call advances one await at a time, a read or a write of
\* the cache may fail at any call, and the entry may be lost between any
\* two awaits (its TTL runs out, or delete_user_vector is called). prev
\* holds the number of calls entered, the entry the cache held when the
\* running call was entered, and the result and the log of the first call.
NoLoss == [calls |-> 0, entry |-> NONE, first |-> [result |-> NoResult, log |-> NoLog]]

\* the upstreams of the two calls: every answer of the retrieval side on
\* one set of signals, and every answer of the signal side on one ranking
LossWorlds ==
  {w \in Upstreams :
     \/ /\ w.interests = Ok(<<>>)
        /\ w.grouped.ok /\ w.grouped.val # EmptyGrouped
        /\ w.keywords = Ok(<<>>)
        /\ w.embed.ok
     \/ /\ w.search \in {Raised, Ok(<<1, 2>>)}
        /\ w.purchases = Ok(<<>>)
        /\ w.catalog_ok
        /\ w.catalog_has = ProductIds}

\* the first call is entered
LossBegin(u, limit) ==
  /\ pc = "idle"
  /\ prev.calls = 0
  /\ LET n == begin_recommend(St, u, limit)
     IN  /\ pc' = n.pc
         /\ loc' = n.loc
         /\ log' = n.log
         /\ result' = n.result
  /\ prev' = [prev EXCEPT !.calls = 1, !.entry = cache[u]]
  /\ UNCHANGED <<cache, up>>

\* the first call has returned and the same call is entered again
LossAgain ==
  /\ pc = "done"
  /\ prev.calls = 1
  /\ LET n == begin_recommend(St, loc.user_id, loc.limit)
     IN  /\ pc' = n.pc
         /\ loc' = n.loc
         /\ log' = n.log
         /\ result' = n.result
  /\ prev' = [calls |-> 2, entry |-> cache[loc.user_id],
              first |-> [result |-> result, log |-> log]]
  /\ UNCHANGED <<cache, up>>

\* the running call goes on to its next await
LossStep(get_fails, set_fails) ==
  /\ pc \notin {"idle", "done", "raised"}
  /\ Apply(step_with_cache(St, The(up), get_fails, set_fails))

InitLoss ==
  /\ cache \in [Users -> CachedVectors]
  /\ pc = "idle"
  /\ loc = NoLoc
  /\ result = NoResult
  /\ log = NoLog
  /\ up \in {Some(w) : w \in LossWorlds}
  /\ prev = NoLoss

NextLoss ==
  \/ \E u \in Users, limit \in 1..MaxLimit : LossBegin(u, limit)
  \/ LossAgain
  \/ \E get_fails, set_fails \in BOOLEAN : LossStep(get_fails, set_fails)
  \/ \E u \in Users : CacheExpire(u)
  \/ \E u \in Users, fails \in BOOLEAN : CacheDelete(u, fails)

SpecLoss == InitLoss /\ [][NextLoss]_vars

\* ------------------------------------- _compute_user_vector on its own
\* the signals and the providers one call of _compute_user_vector sees
FusePool ==
  {<<"view", 1>>, <<"like", 1>>, <<"purchase", 2>>, <<"view", 2>>, <<"add_cart", 1>>}

InterestVec == Vec(2)
KeywordVec == Vec(5)

FuseInputs ==
  [grouped : {Group(recs) : recs \in SeqUpTo(FusePool, MaxFuseRecs)},
   interests : SeqUpTo(Labels, 1),
   keywords : {<<>>, <<"a">>},
   query_ok : BOOLEAN,
   embed_interest : {Raised, Ok(<<>>), Ok(InterestVec)},
   embed_keywords : {Raised, Ok(<<>>), Ok(KeywordVec)}]

InitFuse ==
  /\ up \in {Some(w) : w \in FuseInputs}
  /\ cache = [u \in Users |-> NONE]
  /\ pc = "p_behavior"
  /\ loc = [NoLoc EXCEPT !.grouped_behaviors = The(up).grouped,
                         !.interests = The(up).interests,
                         !.search_keywords = The(up).keywords]
  /\ result = NoResult
  /\ log = NoLog
  /\ prev = NoPrev

\* step 1: the behaviour vector, from the embeddings the index holds
ComputeBehavior ==
  /\ pc = "p_behavior"
  /\ Apply(step_fuse_behavior(St, query_of(The(up), all_product_ids(loc.grouped_behaviors))))

\* step 2: the interest vector
ComputeInterest ==
  /\ pc = "p_interest"
  /\ Apply(step_fuse_interest(St, The(up).embed_interest))

\* steps 3 and 4: the search vector and the fusion
ComputeKeywords ==
  /\ pc = "p_keywords"
  /\ Apply(step_fuse_keywords(St, The(up).embed_keywords))

NextFuse == ComputeBehavior \/ ComputeInterest \/ ComputeKeywords

SpecFuse == InitFuse /\ [][NextFuse]_vars

\* --------------------------------- search_products, get_similar_products
\* self.min_distance as __init__ sets it, and the values _initialize may
\* load over it
min_distance == <<9, 20>>
Floors == {min_distance, <<7, 10>>}

\* a hit of collection.search: the stored product_id (0: falsy) and the
\* cosine similarity
Hit(pid, d) == [product_id |-> pid, distance |-> d]
HitPool == {Hit(pid, d) : pid \in {0, 1, 2}, d \in {<<3, 10>>, <<9, 20>>, <<9, 10>>}}

\* collection.search gives its hits by descending similarity
Descending(s) == \A i \in 1..(Len(s) - 1) : RLeq(s[i + 1].distance, s[i].distance)

\* an index holding twelve distinct products, all near the query
Dozen == [i \in 1..12 |-> Hit(i, <<9, 10>>)]

\* the ranking the index gives for the query vector
Rankings == {s \in SeqUpTo(HitPool, MaxIndex) : Descending(s)} \cup {Dozen}

PageSizes == {1, 2, 5}

\* the hit passes: `product_id and hit.distance >= self.min_distance`
passes_floor_at_any_distance(hit, floor) == hit.product_id # 0

passes_floor(hit, floor) == hit.product_id # 0 /\ RLeq(floor, hit.distance)

RECURSIVE passing_ids(_, _)
\* the ids of the passing hits, in hit order
passing_ids(hits, floor) ==
  IF hits = <<>> THEN <<>>
  ELSE IF passes_floor(Head(hits), floor)
       THEN <<Head(hits).product_id>> \o passing_ids(Tail(hits), floor)
       ELSE passing_ids(Tail(hits), floor)

\* search_products, step 4: all_product_ids
search_product_ids(hits, floor) == Dedup(passing_ids(hits, floor))

\* mutant: one hit more than the pages up to the requested one hold is asked for
search_limit_of_one_more(page_number, page_size) == page_number * page_size + 1

\* search_products, step 2
search_limit(page_number, page_size) == page_number * page_size

\* mutant: every page is cut from the head of the list
page_slice_of_first_page(ids, page_number, page_size) ==
  IF ids = <<>> THEN <<>> ELSE SubSeq(ids, 1, Min(page_size, Len(ids)))

\* all_product_ids[start_index:end_index]
page_slice(ids, page_number, page_size) ==
  LET start_index == (page_number - 1) * page_size
      end_index == start_index + page_size
  IN  IF start_index >= Len(ids) THEN <<>>
      ELSE SubSeq(ids, start_index + 1, Min(end_index, Len(ids)))

\* mutant: the product itself is not kept out of its similar products
similar_product_ids_with_self(hits, floor, product_id, limit) ==
  Take(Dedup(passing_ids(hits, floor)), limit)

\* get_similar_products, step 3: similar_product_ids
similar_product_ids(hits, floor, product_id, limit) ==
  Take(DedupFrom(passing_ids(hits, floor), {product_id}), limit)

PageResult(data, total, page_number, page_size) ==
  [data |-> data, total |-> total, page_number |-> page_number, page_size |-> page_size]

NoSearchLoc ==
  [op |-> "none", page_number |-> 0, page_size |-> 0, product_id |-> 0, limit |-> 0,
   hits |-> <<>>, ids |-> <<>>, total |-> 0, failed |-> FALSE]

search_begin(st, page_number, page_size) ==
  [st EXCEPT !.pc = "s_embed",
             !.loc = [NoSearchLoc EXCEPT !.op = "search",
                                         !.page_number = page_number,
                                         !.page_size = page_size]]

\* mutant: the handler keeps the total counted before the failure
search_except_keeps_total(st) ==
  [st EXCEPT !.pc = "s_done",
             !.loc.failed = TRUE,
             !.result = PageResult(<<>>, st.loc.total, st.loc.page_number,
                                   st.loc.page_size)]

\* search_products, the handler: the empty page
search_except(st) ==
  [st EXCEPT !.pc = "s_done",
             !.loc.failed = TRUE,
             !.result = PageResult(<<>>, 0, st.loc.page_number, st.loc.page_size)]

\* mutant: an empty embedding is searched with
step_search_embed_searches_empty(st, resp) ==
  IF ~resp.ok THEN search_except(st) ELSE [st EXCEPT !.pc = "s_search"]

\* search_products, step 1: embed_query
step_search_embed(st, resp) ==
  IF ~resp.ok THEN search_except(st)
  ELSE IF resp.val = <<>>
  THEN [st EXCEPT !.pc = "s_done",
                  !.result = PageResult(<<>>, 0, st.loc.page_number, st.loc.page_size)]
  ELSE [st EXCEPT !.pc = "s_search"]

\* search_products, steps 3 to 5: collection.search, the floor, the page
step_search_index(st, resp, floor) ==
  IF ~resp.ok THEN search_except(st)
  ELSE LET found_ids == search_product_ids(resp.val, floor)
           total == Len(found_ids)
           page_product_ids == page_slice(found_ids, st.loc.page_number,
                                          st.loc.page_size)
       IN  IF page_product_ids = <<>>
           THEN [st EXCEPT !.pc = "s_done",
                           !.loc.hits = resp.val,
                           !.result = PageResult(<<>>, total, st.loc.page_number,
                                                 st.loc.page_size)]
           ELSE [st EXCEPT !.pc = "s_catalog",
                           !.loc.hits = resp.val,
                           !.loc.ids = page_product_ids,
                           !.loc.total = total]

\* search_products, steps 6 and 7: get_products_by_ids and the re-sort
step_search_catalog(st, resp) ==
  IF ~resp.ok THEN search_except(st)
  ELSE [st EXCEPT !.pc = "s_done",
                  !.result = PageResult(sort_products(st.loc.ids, resp.val),
                                        st.loc.total, st.loc.page_number,
                                        st.loc.page_size)]

similar_begin(st, product_id, limit) ==
  [st EXCEPT !.pc = "m_query",
             !.loc = [NoSearchLoc EXCEPT !.op = "similar",
                                         !.product_id = product_id,
                                         !.limit = limit]]

\* get_similar_products, the handler and the early returns: the empty list
similar_empty(st, failed) ==
  [st EXCEPT !.pc = "m_done", !.loc.failed = failed, !.result = [data |-> <<>>]]

\* get_similar_products, step 1: collection.query for the product's vector
step_similar_query(st, resp) ==
  IF ~resp.ok THEN similar_empty(st, TRUE)
  ELSE IF resp.val = <<>> THEN similar_empty(st, FALSE)
  ELSE [st EXCEPT !.pc = "m_search"]

\* get_similar_products, steps 2 and 3: collection.search and the filter
step_similar_search(st, resp, floor) ==
  IF ~resp.ok THEN similar_empty(st, TRUE)
  ELSE LET ids == similar_product_ids(resp.val, floor, st.loc.product_id, st.loc.limit)
       IN  IF ids = <<>>
           THEN [similar_empty(st, FALSE) EXCEPT !.loc.hits = resp.val]
           ELSE [st EXCEPT !.pc = "m_catalog", !.loc.hits = resp.val, !.loc.ids = ids]

\* get_similar_products, steps 4 and 5: get_products_by_ids and the re-sort
step_similar_catalog(st, resp) ==
  IF ~resp.ok THEN similar_empty(st, TRUE)
  ELSE [st EXCEPT !.pc = "m_done",
                  !.result = [data |-> sort_products(st.loc.ids, resp.val)]]

\* the embedding provider, the index and the catalog of one call; a call
\* ends at the first of them that fails, so one world has one fault
Faults == {"none", "embed_raises", "embed_empty", "index_raises", "catalog_raises",
           "catalog_lacks"}

SearchWorlds ==
  [ranking : Rankings, floor : Floors, fault : Faults]

\* embed_query(keyword) in the world w
embed_in(w) ==
  CASE w.fault = "embed_raises" -> Raised
    [] w.fault = "embed_empty"  -> Ok(<<>>)
    [] OTHER                    -> Ok(InterestVec)

\* collection.search(limit) in the world w
search_in(w, limit) ==
  IF w.fault = "index_raises" THEN Raised ELSE Ok(Take(w.ranking, limit))

\* collection.query(product_id == pid) in the world w: the stored vectors
\* are those of the ranked products
query_in(w, pid) ==
  IF w.fault = "index_raises" THEN Raised
  ELSE IF \E i \in 1..Len(w.ranking) : w.ranking[i].product_id = pid
       THEN Ok(<<[product_id |-> pid, embedding |-> ProductEmbedding(pid)]>>)
       ELSE Ok(<<>>)

\* get_products_by_ids(ids) in the world w; no request is made for the
\* empty list, and a lacking catalog has no record of product 1
catalog_in(w, ids) ==
  IF ids = <<>> THEN Ok(<<>>)
  ELSE IF w.fault = "catalog_raises" THEN Raised
  ELSE LET have == Reverse(IF w.fault = "catalog_lacks" THEN Drop(ids, {1}) ELSE ids)
       IN  Ok([i \in 1..Len(have) |-> Product(have[i])])

InitSearch ==
  /\ up \in {Some(w) : w \in SearchWorlds}
  /\ cache = [u \in Users |-> NONE]
  /\ pc = "idle"
  /\ loc = NoSearchLoc
  /\ result = NoResult
  /\ log = NoLog
  /\ prev = NoPrev

SearchBegin(page_number, page_size) ==
  pc = "idle" /\ Apply(search_begin(St, page_number, page_size))

SearchEmbed == pc = "s_embed" /\ Apply(step_search_embed(St, embed_in(The(up))))

SearchIndex ==
  /\ pc = "s_search"
  /\ Apply(step_search_index(St,
             search_in(The(up), search_limit(loc.page_number, loc.page_size)),
             The(up).floor))

SearchCatalog ==
  pc = "s_catalog" /\ Apply(step_search_catalog(St, catalog_in(The(up), loc.ids)))

SimilarBegin(product_id, limit) ==
  pc = "idle" /\ Apply(similar_begin(St, product_id, limit))

SimilarQuery ==
  pc = "m_query" /\ Apply(step_similar_query(St, query_in(The(up), loc.product_id)))

SimilarSearch ==
  /\ pc = "m_search"
  /\ Apply(step_similar_search(St, search_in(The(up), loc.limit + 10), The(up).floor))

SimilarCatalog ==
  pc = "m_catalog" /\ Apply(step_similar_catalog(St, catalog_in(The(up), loc.ids)))

NextSearch ==
  \/ \E page_number \in 1..MaxPage, page_size \in PageSizes :
       SearchBegin(page_number, page_size)
  \/ SearchEmbed
  \/ SearchIndex
  \/ SearchCatalog
  \/ \E product_id \in ProductIds, limit \in 1..MaxLimit : SimilarBegin(product_id, limit)
  \/ SimilarQuery
  \/ SimilarSearch
  \/ SimilarCatalog

SpecSearch == InitSearch /\ [][NextSearch]_vars

\* ------------------------------------------------------------ claims
Strategies == {"personalized", "cold_start", "fallback"}

ProductIdsOf(products) == {id_int(products[i]) : i \in 1..Len(products)}

\* the hot-products fetch the call made last answered with a non-empty list
HotListNonEmpty == ~IsNone(log.hot) /\ The(log.hot).ok /\ The(log.hot).val # <<>>

\* C1: recommend never propagates an exception: no position of the call is
\* one where an exception has left recommend, and a call that has returned
\* returned a list with a strategy among personalized, cold_start, fallback.
C1_NeverPropagates ==
  /\ pc # "raised"
  /\ pc = "done" => result.strategy \in Strategies

\* C1 witness: a call returned although a stage raised and the hot-products
\* fetch of the handler raised too.
C1_Witness ==
  /\ pc = "done"
  /\ log.excepted
  /\ log.failed \ {"hot"} # {}
  /\ The(log.hot) = Raised

\* C2 (as stated): in every outcome "fallback" comes with an empty list, and
\* a non-empty hot list that is returned is tagged "cold_start", also after
\* an exception in an earlier stage.
C2_FallbackIsEmpty ==
  pc = "done" =>
    /\ result.strategy = "fallback" => result.products = <<>>
    /\ (HotListNonEmpty /\ result.products = The(log.hot).val)
         => result.strategy = "cold_start"

\* C2 (amended): when no exception reached the handler, the hot list is
\* returned as "cold_start" if non-empty and "fallback" comes with the empty
\* list; when the handler ran, the call returns whatever list the handler's
\* hot-products fetch gave (the empty list if it raised), tagged "fallback".
C2_FallbackAfterException ==
  pc = "done" =>
    /\ (~log.excepted /\ ~IsNone(log.hot)) =>
         /\ The(log.hot).ok
         /\ result.products = The(log.hot).val
         /\ result.strategy = IF The(log.hot).val # <<>> THEN "cold_start" ELSE "fallback"
    /\ (~log.excepted /\ result.strategy = "fallback") => result.products = <<>>
    /\ log.excepted =>
         /\ result.strategy = "fallback"
         /\ result.products = IF The(log.hot).ok THEN The(log.hot).val ELSE <<>>

\* C2 witness: a call returned a non-empty list tagged "fallback".
C2_Witness ==
  /\ pc = "done"
  /\ log.excepted
  /\ result.strategy = "fallback"
  /\ result.products # <<>>

\* C3: when a stage raised, no personalized list came out and the
\* hot-products fetch then answered with a non-empty list, the caller
\* receives that list.
C3_FailureDegradesToHot ==
  (pc = "done" /\ log.failed # {} /\ result.strategy # "personalized" /\ HotListNonEmpty)
    => result.products = The(log.hot).val

\* C3 witness: the retrieval raised after the fusion gave a vector, and the
\* caller received the non-empty hot list.
C3_Witness ==
  /\ pc = "done"
  /\ "retrieve" \in log.failed
  /\ log.fuse = "vector"
  /\ HotListNonEmpty
  /\ result.products = The(log.hot).val

\* the user of the call has, on the upstream w, a candidate the
\* vector search finds, that is not in the purchased set, and that the
\* catalog can deliver
HasRetrievableCandidate(w) ==
  /\ w.catalog_ok
  /\ \E c \in Range(vector_search(w.search)) :
       c \notin PurchasedSet(w.purchases.val) /\ c \in w.catalog_has

\* C4 (as stated): a call that finds a cached vector, for a user with at
\* least one retrievable non-purchased candidate, returns "personalized"
\* and invokes none of the three signal fetches.
C4_CacheHitIsPersonalized ==
  (pc = "done" /\ ~IsNone(up) /\ log.hit /\ HasRetrievableCandidate(The(up)))
    => (result.strategy = "personalized" /\ log.invoked \cap SignalFetches = {})

\* C4 (amended): a call that finds a cached vector and gets a catalog
\* record for one of the first `limit` candidates left by the purchased
\* filter returns "personalized" there and then, and has invoked none of
\* the three signal fetches.
C4_CacheHitWithinLimit ==
  (log.hit /\ log.kept # {})
    => /\ pc = "done"
       /\ result.strategy = "personalized"
       /\ ProductIdsOf(result.products) = log.kept
       /\ log.invoked \cap SignalFetches = {}

\* C4 witness: a cache hit returned a personalized list.
C4_Witness ==
  /\ pc = "done"
  /\ log.hit
  /\ log.kept # {}
  /\ log.path = "cache"

\* the three fetches of the gather completed and reported no interests,
\* fewer than min_behavior_count behaviours and no search keywords
NoSignals == log.cold

\* C5: a call that finds no cached vector, no interests, fewer than
\* min_behavior_count behaviours and no search keywords never returns
\* "personalized": it returns the hot list as "cold_start" when the
\* hot-products fetch gives a non-empty list, and "fallback" when that
\* fetch gives the empty list or raises.
C5_ColdStartWithoutSignals ==
  (pc = "done" /\ ~log.hit /\ NoSignals) =>
    /\ result.strategy # "personalized"
    /\ "fuse" \notin log.invoked
    /\ ~IsNone(log.hot)
    /\ ~log.excepted =>
         /\ The(log.hot).ok
         /\ result.products = The(log.hot).val
         /\ result.strategy = IF The(log.hot).val # <<>> THEN "cold_start" ELSE "fallback"
    /\ log.excepted => result.strategy = "fallback"

\* C5 witness: such a call, with two behaviours on record, returned the
\* hot list as "cold_start".
C5_Witness ==
  /\ pc = "done"
  /\ ~log.hit
  /\ NoSignals
  /\ log.sig.behavior_count = min_behavior_count - 1
  /\ result.strategy = "cold_start"

\* the signals the gather has fetched so far are enough for the
\* sufficiency test
FetchedSignalsSuffice ==
  \/ log.sig.interests_count > 0
  \/ log.sig.behavior_count >= min_behavior_count
  \/ log.sig.search_keyword_count > 0

\* C6 (as stated): when one fetch of the gather fails and the signals that
\* were fetched satisfy the sufficiency test, the call is not aborted into
\* the handler: the personalized attempt is still made with them. The
\* formula keeps to the failures of get_user_interests and
\* get_search_keywords.
C6_PartialFailureDegrades ==
  (/\ log.failed \cap {"interests", "keywords"} # {}
   /\ "grouped" \notin log.failed
   /\ FetchedSignalsSuffice)
    => (pc # "r_except" /\ ~log.excepted)

\* C7 (as stated): a personalized result contains no product of the user's
\* purchased set, on the cache path and on the fused path, whether the
\* purchased-ids fetch succeeded, was empty or failed.
C7_NeverRecommendsPurchased ==
  (pc = "done" /\ result.strategy = "personalized")
    => ProductIdsOf(result.products) \cap log.bought = {}

\* C8: once the three fetches of the gather have completed without a raise,
\* the personalized attempt (the fusion) is invoked if and only if there is
\* an interest, or at least min_behavior_count behaviour records of the
\* supported types, or a search keyword.
C8_FuseIffSufficient ==
  (/\ pc \in {"p_behavior", "r_hot"}
   /\ log.fuse = "none"
   /\ IsNone(log.hot)
   /\ log.sig.interests_count >= 0
   /\ log.sig.behavior_count >= 0
   /\ log.sig.search_keyword_count >= 0
   /\ log.failed \cap SignalFetches = {})
    => (("fuse" \in log.invoked /\ pc = "p_behavior") <=> FetchedSignalsSuffice)

\* C8 witness: the fusion is entered on the search keywords alone.
C8_Witness ==
  /\ pc = "p_behavior"
  /\ "fuse" \in log.invoked
  /\ log.failed \cap SignalFetches = {}
  /\ log.sig.interests_count = 0
  /\ log.sig.behavior_count = min_behavior_count - 1
  /\ log.sig.search_keyword_count > 0

\* the first of the two calls found nothing in the cache, fused a vector
\* and wrote it
FirstMissedAndWrote ==
  /\ prev.calls = 2
  /\ ~prev.first.log.hit
  /\ ~prev.first.log.get_failed
  /\ ~IsNone(prev.first.log.fused)
  /\ prev.first.log.sets # <<>>
  /\ ~prev.first.log.set_failed

\* C9 (as stated): with the upstream fixed, the call on the cache that holds
\* the fused vector returns the list and the strategy that the call on the
\* empty cache returns.
C9_SameResultWithoutCache ==
  (pc = "done" /\ FirstMissedAndWrote /\ log.hit) => result = prev.first.result

\* C10: once the fusion has given a vector, a cache write for the user with
\* that vector and the configured TTL has been issued by the time the call
\* goes on to the retrieval, whatever the retrieval and the final strategy.
C10_FusedVectorIsCached ==
  (log.fuse = "vector" /\ pc # "p_cache_set")
    => \E i \in 1..Len(log.sets) :
         log.sets[i] = [user_id |-> loc.user_id,
                        vector |-> The(log.fused),
                        ttl |-> vector_cache_ttl]

\* C10 witness: the fused vector was written although the retrieval gave
\* nothing and the call ended as "fallback".
C10_Witness ==
  /\ pc = "done"
  /\ log.fuse = "vector"
  /\ Len(log.sets) = 1
  /\ result.strategy = "fallback"
  /\ result.products = <<>>

\* C11: a failure of the cache write does not affect the returned result:
\* on the same upstream, the call whose cache write fails returns the list
\* and the strategy of the call whose cache write goes through.
C11_CacheWriteFailureIsHarmless ==
  (pc = "done" /\ FirstMissedAndWrote /\ ~log.hit /\ ~log.get_failed /\ log.set_failed)
    => result = prev.first.result

\* C11 witness: the entry the first call wrote was lost, the second call
\* fused again, its cache write failed, nothing was cached, and it still
\* returned the personalized list of the call that wrote the cache.
C11_Witness ==
  /\ pc = "done"
  /\ FirstMissedAndWrote
  /\ ~log.hit
  /\ ~log.get_failed
  /\ log.set_failed
  /\ IsNone(cache[loc.user_id])
  /\ result.strategy = "personalized"
  /\ result = prev.first.result

\* the vector store answers no search and no query during the call
VectorStoreDown ==
  /\ ~IsNone(up)
  /\ ~The(up).search.ok
  /\ ~The(up).query_ok

\* the embedding provider answers no embed_query during the call
EmbeddingDown == ~IsNone(up) /\ ~The(up).embed.ok

\* the cache answers no read and no write during the call
CacheDown == log.get_failed /\ (log.sets # <<>> => log.set_failed)

\* the call ended on the cold-start path: the hot list as "cold_start" when
\* it is non-empty, the empty list as "fallback" when it is not
EndedInColdStart ==
  /\ ~IsNone(log.hot)
  /\ The(log.hot).ok
  /\ ~log.excepted
  /\ result.products = The(log.hot).val
  /\ result.strategy = IF The(log.hot).val # <<>> THEN "cold_start" ELSE "fallback"

\* C12 (as stated): a call during which the vector store, the cache or the
\* embedding provider is unreachable does not return "personalized".
C12_DependencyDownIsColdStart ==
  (pc = "done" /\ (VectorStoreDown \/ CacheDown \/ EmbeddingDown))
    => result.strategy # "personalized"

\* C12 (amended): a call during which the vector store is unreachable never
\* returns "personalized"; it fetches the hot products, and when no
\* exception reached the handler it returns them as "cold_start" when the
\* list is non-empty and as "fallback" when it is empty; after an exception
\* the strategy is "fallback".
C12_VectorStoreDownIsColdStart ==
  (pc = "done" /\ VectorStoreDown) =>
    /\ result.strategy # "personalized"
    /\ ~IsNone(log.hot)
    /\ (~log.excepted => EndedInColdStart)
    /\ (log.excepted => result.strategy = "fallback")

\* C12 witness: the cache held a vector, the search for it failed with the
\* vector store unreachable, and the call returned the hot list instead.
C12_Witness ==
  /\ pc = "done"
  /\ VectorStoreDown
  /\ log.hit
  /\ "retrieve" \in log.failed
  /\ HotListNonEmpty
  /\ result.products = The(log.hot).val

\* C13 (as stated): a single call of recommend attempts the hot-products
\* fetch at most once.
C13_HotFetchedAtMostOnce == log.hot_calls <= 1

\* the weights as the claim states them
StatedWeights ==
  [bt \in {"purchase", "add_cart", "like", "share", "view"} |->
     CASE bt = "purchase" -> <<3, 1>>
       [] bt = "add_cart" -> <<5, 2>>
       [] bt = "like"     -> <<2, 1>>
       [] bt = "share"    -> <<3, 2>>
       [] bt = "view"     -> <<1, 1>>]

\* the behaviour types recorded for a product
TypesRecorded(g, pid) ==
  {bt \in DOMAIN StatedWeights : \E i \in 1..Len(g[bt]) : g[bt][i] = pid}

\* the largest stated weight among the types recorded for a product
StatedWeight(g, pid) ==
  CHOOSE w \in {StatedWeights[bt] : bt \in TypesRecorded(g, pid)} :
    \A bt \in TypesRecorded(g, pid) : RLeq(StatedWeights[bt], w)

\* the weighted mean of the product embeddings under the stated weights
StatedBehaviorVector(g) ==
  LET pids == Ascending({pid \in ProductIds : TypesRecorded(g, pid) # {}})
  IN  VDiv(VSum([i \in 1..Len(pids) |->
                   VScale(ProductEmbedding(pids[i]), StatedWeight(g, pids[i]))]),
           RSum([i \in 1..Len(pids) |-> StatedWeight(g, pids[i])]))

\* C14: the behaviour vector is the mean of the product embeddings, each
\* weighted by the largest weight among the behaviour types recorded for
\* that product, however many records each type has.
C14_WeightIsMaxOverTypes ==
  (/\ pc = "p_interest"
   /\ The(up).query_ok
   /\ behavior_count(The(up).grouped) >= min_behavior_count)
    => loc.behavior_vector = Some(StatedBehaviorVector(The(up).grouped))

\* C14 witness: {view: [1], like: [1], purchase: [2]} weighs product 1 by 2
\* and product 2 by 3: (2 * 1 + 3 * 4) / 5.
C14_Witness ==
  /\ pc = "p_interest"
  /\ The(up).query_ok
  /\ The(up).grouped = Group(<< <<"view", 1>>, <<"like", 1>>, <<"purchase", 2>> >>)
  /\ loc.behavior_vector = Some(<< <<14, 5>> >>)

\* the three sub-vectors of the call, from the signals and the providers
SubBehavior ==
  IF behavior_count(The(up).grouped) >= min_behavior_count
  THEN get_user_vector_from_behaviors(The(up).grouped,
         query_of(The(up), all_product_ids(The(up).grouped)))
  ELSE NONE

SubInterest == get_user_vector_from_interests(The(up).interests, The(up).embed_interest)

SubSearch == get_user_vector_from_keywords(The(up).keywords, The(up).embed_keywords)

\* the combination as the claim states it
StatedFusion(b, i, s) ==
  LET base == IF ~IsNone(b) /\ ~IsNone(i)
              THEN Some(VAdd(VScale(The(b), <<3, 5>>), VScale(The(i), <<2, 5>>)))
              ELSE IF ~IsNone(b) THEN b ELSE i
  IN  IF ~IsNone(base) /\ ~IsNone(s)
      THEN Some(VDiv(VAdd(The(base), The(s)), <<2, 1>>))
      ELSE IF ~IsNone(base) THEN base ELSE s

\* C15: _compute_user_vector returns 0.6 * behaviour + 0.4 * interest when
\* both exist, else whichever exists, as the base; the mean of base and
\* search when both exist, else whichever exists; and nothing exactly when
\* the three sub-vectors are all absent.
C15_FusionOfPresentSubVectors ==
  (pc \in {"p_cache_set", "r_hot"}) =>
    /\ log.fused = StatedFusion(SubBehavior, SubInterest, SubSearch)
    /\ IsNone(log.fused) <=>
         (IsNone(SubBehavior) /\ IsNone(SubInterest) /\ IsNone(SubSearch))

\* C15 witness: the three sub-vectors exist, 14/5, 2 and 5, and the result
\* is ((0.6 * 14/5 + 0.4 * 2) + 5) / 2.
C15_Witness ==
  /\ pc = "p_cache_set"
  /\ SubBehavior = Some(<< <<14, 5>> >>)
  /\ SubInterest = Some(InterestVec)
  /\ SubSearch = Some(KeywordVec)
  /\ log.fused = Some(<< <<187, 50>> >>)

\* the floor-passing, de-duplicated ids among the page_number * page_size
\* best-ranked candidates, in rank order
StatedRanked ==
  LET cands == Take(The(up).ranking, loc.page_number * loc.page_size)
      Passing(h) == h.product_id # 0 /\ RLeq(The(up).floor, h.distance)
      passing == SelectSeq(cands, Passing)
  IN  Dedup([i \in 1..Len(passing) |-> passing[i].product_id])

\* the ids at ranks (page_number - 1) * page_size + 1 .. page_number * page_size
StatedPage ==
  LET first == (loc.page_number - 1) * loc.page_size
      n == Min(loc.page_size, Len(StatedRanked) - first)
  IN  IF n <= 0 THEN <<>> ELSE [i \in 1..n |-> StatedRanked[first + i]]

\* the ids of the returned records, in order
DataIds == [i \in 1..Len(result.data) |-> result.data[i].id]

\* the ids the catalog has no record of
CatalogLacks == IF The(up).fault = "catalog_lacks" THEN {1} ELSE {}

Answered == The(up).fault \in {"none", "catalog_lacks"}

\* C16: every product returned by search_products or get_similar_products
\* has a hit whose similarity is at least the floor, and the total of a
\* search counts no product without such a hit.
C16_NothingBelowFloor ==
  (pc \in {"s_done", "m_done"}) =>
    LET above == {loc.hits[j].product_id :
                    j \in {k \in 1..Len(loc.hits) :
                             RLeq(The(up).floor, loc.hits[k].distance)}}
    IN  /\ Range(DataIds) \subseteq above
        /\ loc.op = "search" => result.total <= Cardinality(above \ {0})

\* C16 witness: under a floor of 0.7 a search returned product 2 and left
\* out product 1, whose only hit has similarity 0.45.
C16_Witness ==
  /\ pc = "s_done"
  /\ The(up).floor = <<7, 10>>
  /\ loc.hits = <<Hit(2, <<9, 10>>), Hit(1, <<9, 20>>)>>
  /\ DataIds = <<2>>
  /\ result.total = 1

\* C17 (as stated): when the embedding, the index and the catalog answer,
\* search returns exactly the ids at the ranks of the requested page, and
\* total is the number of ranked ids.
C17_PageIsRankSlice ==
  (pc = "s_done" /\ Answered) =>
    /\ DataIds = StatedPage
    /\ result.total = Len(StatedRanked)

\* C17 (amended): search returns the ids at the ranks of the requested page
\* less those the catalog returns no record for, in rank order, and total
\* is the number of ranked ids.
C17_PageIsRankSliceInCatalog ==
  (pc = "s_done" /\ Answered) =>
    /\ DataIds = Drop(StatedPage, CatalogLacks)
    /\ result.total = Len(StatedRanked)

\* C17 witness: page 2 of size 5 over twelve matches returned the sixth to
\* the tenth.
C17_Witness ==
  /\ pc = "s_done"
  /\ The(up).ranking = Dozen
  /\ loc.page_number = 2
  /\ loc.page_size = 5
  /\ DataIds = <<6, 7, 8, 9, 10>>
  /\ result.total = 10

\* C18 (as stated): page 1 of size 5 over an index holding twelve distinct
\* floor-passing matches has total 12, five records, page_number 1 and
\* page_size 5.
C18_TotalOfTwelveMatches ==
  (/\ pc = "s_done"
   /\ The(up).ranking = Dozen
   /\ The(up).fault = "none"
   /\ loc.page_number = 1
   /\ loc.page_size = 5)
    => /\ result.total = 12
       /\ Len(result.data) = 5
       /\ result.page_number = 1
       /\ result.page_size = 5

\* C19: search returns, through no handler, the empty page with the
\* request's page_number and page_size when the embedding is empty
\* (total 0), when no hit passes the floor (total 0), and when the page lies
\* beyond the ranked ids (total: their number).
C19_EmptyStageGivesEmptyPage ==
  (pc = "s_done") =>
    /\ The(up).fault = "embed_empty" =>
         /\ ~loc.failed
         /\ result = PageResult(<<>>, 0, loc.page_number, loc.page_size)
    /\ (Answered /\ StatedRanked = <<>>) =>
         /\ ~loc.failed
         /\ result = PageResult(<<>>, 0, loc.page_number, loc.page_size)
    /\ (Answered /\ (loc.page_number - 1) * loc.page_size >= Len(StatedRanked)) =>
         /\ ~loc.failed
         /\ result = PageResult(<<>>, Len(StatedRanked), loc.page_number, loc.page_size)

\* C19 witness: page 2 of size 2 over two ranked ids is empty with total 2.
C19_Witness ==
  /\ pc = "s_done"
  /\ Answered
  /\ ~loc.failed
  /\ loc.page_number = 2
  /\ loc.page_size = 2
  /\ Len(StatedRanked) = 2
  /\ result = PageResult(<<>>, 2, 2, 2)

\* the stage of the world's fault is reached by the call and raises
FaultRaises ==
  \/ The(up).fault \in {"embed_raises", "index_raises"}
  \/ The(up).fault = "catalog_raises" /\ StatedPage # <<>>

\* C20: a raise of the embedding provider, the index or the catalog ends
\* search in its handler, which returns the empty page with total 0 and the
\* request's page_number and page_size.
C20_SearchNeverPropagates ==
  /\ (pc = "s_done" /\ FaultRaises) =>
       /\ loc.failed
       /\ result = PageResult(<<>>, 0, loc.page_number, loc.page_size)
  /\ (pc = "s_done" /\ loc.failed) => FaultRaises

\* C20 witness: the catalog raised after two ids were ranked, and the page
\* came back empty with total 0.
C20_Witness ==
  /\ pc = "s_done"
  /\ The(up).fault = "catalog_raises"
  /\ loc.failed
  /\ loc.total = 2
  /\ result = PageResult(<<>>, 0, loc.page_number, loc.page_size)

\* the first `limit` distinct ids, in rank order among the limit + 10
\* best-ranked candidates, that pass the floor and are not the product
StatedSimilar ==
  LET cands == Take(The(up).ranking, loc.limit + 10)
      Eligible(h) == /\ h.product_id # 0
                     /\ h.product_id # loc.product_id
                     /\ RLeq(The(up).floor, h.distance)
      eligible == SelectSeq(cands, Eligible)
  IN  Take(Dedup([i \in 1..Len(eligible) |-> eligible[i].product_id]), loc.limit)

\* the index holds a vector for the product of the call
HasVector == \E i \in 1..Len(The(up).ranking) : The(up).ranking[i].product_id = loc.product_id

\* C21 (as stated): for a product the index holds, get_similar_products
\* returns records for exactly the first `limit` eligible ids; the product
\* itself is never among them and they are never more than `limit`.
C21_SimilarAreFirstEligible ==
  (pc = "m_done" /\ Answered /\ HasVector) =>
    /\ DataIds = StatedSimilar
    /\ loc.product_id \notin Range(DataIds)
    /\ Len(DataIds) <= loc.limit

\* C21 (amended): get_similar_products returns the records of the first
\* `limit` eligible ids less those the catalog returns no record for, in
\* rank order; the product itself is never among them and they are never
\* more than `limit`, whatever fails.
C21_SimilarAreFirstEligibleInCatalog ==
  (pc = "m_done") =>
    /\ (Answered /\ HasVector) => DataIds = Drop(StatedSimilar, CatalogLacks)
    /\ loc.product_id \notin Range(DataIds)
    /\ Len(DataIds) <= loc.limit

\* C21 witness: the similar products of product 1, limit 2, over twelve
\* near products are products 2 and 3: the collection stopped at two.
C21_Witness ==
  /\ pc = "m_done"
  /\ The(up).ranking = Dozen
  /\ loc.product_id = 1
  /\ loc.limit = 2
  /\ DataIds = <<2, 3>>

\* ------------------------------------------------ refresh_user_vector
\* Two calls of refresh_user_vector(u) in succession, step by step, on one
\* upstream and one cache that answer both calls alike.

\* a result of the gather with return_exceptions=True: an exception is
\* replaced by the absent value of its signal
isolated(resp, absent) == IF resp.ok THEN resp.val ELSE absent

\* mutant: a fetch that raised ends the refresh
after_refresh_gather_aborts(failed, enough) ==
  IF failed = {} /\ enough THEN "f_behavior" ELSE "f_done"

\* if not (has_interests or has_enough_behaviors or has_search_keywords): return
after_refresh_gather(failed, enough) == IF enough THEN "f_behavior" ELSE "f_done"

\* refresh_user_vector is entered
begin_refresh(st, u) ==
  [st EXCEPT !.pc = "f_gather",
             !.loc = [NoLoc EXCEPT !.user_id = u],
             !.log = NoLog,
             !.result = NoResult]

\* refresh_user_vector: the gather of the three fetches and the test on
\* what they brought
step_refresh_gather(st, ri, rg, rk) ==
  LET interests == isolated(ri, <<>>)
      grouped_behaviors == isolated(rg, EmptyGrouped)
      search_keywords == get_search_keywords(rk)
      failed == {f \in SignalFetches : \/ f = "interests" /\ ~ri.ok
                                       \/ f = "grouped" /\ ~rg.ok
                                       \/ f = "keywords" /\ ~rk.ok}
  IN  [st EXCEPT !.pc = after_refresh_gather(
                          failed, sufficient(interests, grouped_behaviors, search_keywords)),
                 !.loc.interests = interests,
                 !.loc.grouped_behaviors = IF has_enough_behaviors(grouped_behaviors)
                                           THEN grouped_behaviors ELSE EmptyGrouped,
                 !.loc.search_keywords = search_keywords,
                 !.log.sig = [interests_count |-> Len(interests),
                              behavior_count |-> behavior_count(grouped_behaviors),
                              search_keyword_count |-> Len(search_keywords)],
                 !.log.failed = failed]

\* refresh_user_vector in _compute_user_vector, step 1
step_refresh_behavior(st, resp) ==
  [step_fuse_behavior(st, resp) EXCEPT !.pc = "f_interest"]

\* refresh_user_vector in _compute_user_vector, step 2
step_refresh_interest(st, resp) ==
  [step_fuse_interest(st, resp) EXCEPT !.pc = "f_keywords"]

\* mutant: a refresh that fused no vector drops the entry it found
step_refresh_keywords_drops_entry(st, resp) ==
  LET n == step_fuse_keywords(st, resp)
  IN  IF IsNone(n.loc.user_vector)
      THEN [n EXCEPT !.pc = "f_done", !.cache[st.loc.user_id] = NONE]
      ELSE [n EXCEPT !.pc = "f_set"]

\* refresh_user_vector in _compute_user_vector, steps 3 and 4, and
\* "if user_vector is not None"
step_refresh_keywords(st, resp) ==
  LET n == step_fuse_keywords(st, resp)
  IN  [n EXCEPT !.pc = IF IsNone(n.loc.user_vector) THEN "f_done" ELSE "f_set"]

\* refresh_user_vector: redis_client.set_user_vector(ttl=self.vector_cache_ttl)
step_refresh_set(st, fails) ==
  [step_cache_set(st, fails) EXCEPT !.pc = "f_done"]

RefreshWorlds ==
  [interests : InterestResponses,
   grouped   : {Raised, Ok(EmptyGrouped),
                Ok(Group(<< <<"purchase", 1>>, <<"view", 1>>, <<"view", 2>> >>))},
   keywords  : {Raised, Ok(<<>>), Ok(<<"a">>)},
   embed     : {Raised, Ok(<<>>)} \cup {Ok(v) : v \in TextVecs},
   query_ok  : BOOLEAN,
   set_ok    : BOOLEAN]

\* the vector the cache holds for u
cached_vector_of(u) == get_user_vector(cache[u], FALSE)

RefreshBegin(u) ==
  /\ ~IsNone(up)
  /\ \/ pc = "idle" /\ prev = NoPrev /\ prev' = prev
     \/ /\ pc = "f_done"
        /\ prev = NoPrev
        /\ loc.user_id = u
        /\ prev' = [NoPrev EXCEPT !.fused = cached_vector_of(u),
                                  !.user_id = u,
                                  !.limit = Len(log.sets)]
  /\ LET n == begin_refresh(St, u)
     IN  /\ cache' = n.cache
         /\ pc' = n.pc
         /\ loc' = n.loc
         /\ result' = n.result
         /\ log' = n.log
  /\ UNCHANGED up

RefreshGather ==
  /\ pc = "f_gather"
  /\ Apply(step_refresh_gather(St, The(up).interests, The(up).grouped, The(up).keywords))

RefreshBehavior ==
  /\ pc = "f_behavior"
  /\ Apply(step_refresh_behavior(
             St, query_of(The(up), all_product_ids(loc.grouped_behaviors))))

RefreshInterest ==
  /\ pc = "f_interest"
  /\ Apply(step_refresh_interest(St, The(up).embed))

RefreshKeywords ==
  /\ pc = "f_keywords"
  /\ Apply(step_refresh_keywords(St, The(up).embed))

RefreshSet ==
  /\ pc = "f_set"
  /\ Apply(step_refresh_set(St, ~The(up).set_ok))

InitRefresh ==
  /\ cache \in [Users -> CachedVectors]
  /\ pc = "idle"
  /\ loc = NoLoc
  /\ result = NoResult
  /\ log = NoLog
  /\ up \in {Some(w) : w \in RefreshWorlds}
  /\ prev = NoPrev

NextRefresh ==
  \/ \E u \in Users : RefreshBegin(u)
  \/ RefreshGather
  \/ RefreshBehavior
  \/ RefreshInterest
  \/ RefreshKeywords
  \/ RefreshSet

SpecRefresh == InitRefresh /\ [][NextRefresh]_vars

\* the second of the two calls has returned
SecondRefreshDone == pc = "f_done" /\ prev # NoPrev

\* C22: after the second of two refresh_user_vector(u) calls in succession
\* on an upstream and a cache that answer both calls alike, the cache holds
\* for u the vector it held after the first call.
C22_RefreshIsIdempotent ==
  SecondRefreshDone => cached_vector_of(prev.user_id) = prev.fused

\* C22 witness: both calls wrote the fused vector over the stale entry, and
\* the entry after the second call is the one the first call left.
C22_Witness ==
  /\ SecondRefreshDone
  /\ prev.limit = 1
  /\ Len(log.sets) = 1
  /\ ~log.set_failed
  /\ prev.fused = log.fused
  /\ prev.fused # Some(StaleVec)
  /\ cached_vector_of(prev.user_id) = prev.fused

\* the vector the signals that were fetched fuse to on the upstream w, a
\* fetch that raised counting as a signal the user does not have
RefreshedVector(w) ==
  LET interests == IF w.interests.ok THEN w.interests.val ELSE <<>>
      g == IF w.grouped.ok THEN w.grouped.val ELSE EmptyGrouped
      keywords == IF w.keywords.ok THEN get_search_keywords(w.keywords) ELSE <<>>
  IN  IF ~sufficient(interests, g, keywords) THEN NONE
      ELSE fuse_vectors(
             IF has_enough_behaviors(g)
             THEN get_user_vector_from_behaviors(g, query_of(w, all_product_ids(g)))
             ELSE NONE,
             get_user_vector_from_interests(interests, w.embed),
             get_user_vector_from_keywords(recent_keywords(keywords), w.embed))

\* C30: refresh_user_vector never raises; when it has returned, the vector
\* it computed is the one the signals whose fetch did not raise fuse to,
\* and when that vector is not absent it was handed to the cache, which
\* holds it unless the write failed.
C30_RefreshIsolatesFetchFailures ==
  /\ pc # "raised"
  /\ (pc = "f_done") =>
       LET v == RefreshedVector(The(up))
       IN  /\ log.fused = v
           /\ IsNone(v) => log.sets = <<>>
           /\ ~IsNone(v) =>
                /\ Len(log.sets) = 1
                /\ log.sets[1].user_id = loc.user_id
                /\ log.sets[1].vector = The(v)
                /\ The(up).set_ok => cached_vector_of(loc.user_id) = v

\* C30 witness: the interests fetch raised, and the vector of the search
\* keywords alone replaced the stale entry.
C30_Witness ==
  /\ pc = "f_done"
  /\ log.failed = {"interests"}
  /\ The(up).grouped.ok
  /\ log.sig.behavior_count < min_behavior_count
  /\ log.fused = Some(Vec(2))
  /\ cached_vector_of(loc.user_id) = Some(Vec(2))

\* ------------------------------------- two calls for one user at once
\* Two calls for the same user, each recommend or refresh_user_vector, run
\* on one event loop and one upstream: the call that runs goes on to its
\* next await, where the loop may hand over to the other call. The cache is
\* what the two share.

\* one step of the refresh st on the upstream w; the cache itself is reliable
refresh_step_on(st, w) ==
  CASE st.pc = "f_gather"   -> step_refresh_gather(st, w.interests, w.grouped, w.keywords)
    [] st.pc = "f_behavior" ->
         step_refresh_behavior(st, query_of(w, all_product_ids(st.loc.grouped_behaviors)))
    [] st.pc = "f_interest" -> step_refresh_interest(st, w.embed)
    [] st.pc = "f_keywords" -> step_refresh_keywords(st, w.embed)
    [] st.pc = "f_set"      -> step_refresh_set(st, FALSE)

RefreshPcs == {"f_gather", "f_behavior", "f_interest", "f_keywords", "f_set"}

Returned == {"done", "raised", "f_done"}

CallKinds == {"recommend", "refresh"}

\* the call that is not running, the vector of the last cache write that
\* went through, the entry the cache held before the two calls, and the
\* users delete_user_vector has dropped the entry of
NoRace == [other |-> [pc |-> "idle", loc |-> NoLoc, result |-> NoResult, log |-> NoLog],
           last |-> NONE,
           start |-> NONE,
           deleted |-> {}]

RaceWorlds ==
  {w \in Upstreams :
     /\ w.interests = Ok(<<>>)
     /\ w.grouped.ok /\ w.grouped.val # EmptyGrouped
     /\ w.keywords = Ok(<<>>)
     /\ w.embed.ok
     /\ w.query_ok
     /\ w.search \in {Ok(<<1>>), Ok(<<1, 2>>)}
     /\ w.purchases = Ok(<<>>)
     /\ w.catalog_has \in {{}, ProductIds}
     /\ w.hot.ok /\ w.hot.val # <<>>}

\* the running call is entered
RaceBegin(kind, u, limit) ==
  /\ pc = "idle"
  /\ LET n == IF kind = "recommend" THEN begin_recommend(St, u, limit)
              ELSE begin_refresh(St, u)
     IN  /\ cache' = n.cache
         /\ pc' = n.pc
         /\ loc' = n.loc
         /\ result' = n.result
         /\ log' = n.log
  /\ UNCHANGED <<up, prev>>

\* the running call goes on to its next await
RaceStep ==
  /\ pc \notin Returned \cup {"idle"}
  /\ LET n == IF pc \in RefreshPcs THEN refresh_step_on(St, The(up))
              ELSE step_on(St, The(up))
     IN  /\ cache' = n.cache
         /\ pc' = n.pc
         /\ loc' = n.loc
         /\ result' = n.result
         /\ log' = n.log
         /\ prev' = IF Len(n.log.sets) > Len(log.sets) /\ ~n.log.set_failed
                    THEN [prev EXCEPT !.last = Some(n.log.sets[Len(n.log.sets)].vector)]
                    ELSE prev
  /\ UNCHANGED up

\* the event loop hands over to the other call
RaceSwitch ==
  /\ prev.other.pc \notin Returned
  /\ pc' = prev.other.pc
  /\ loc' = prev.other.loc
  /\ result' = prev.other.result
  /\ log' = prev.other.log
  /\ prev' = [prev EXCEPT !.other = [pc |-> pc, loc |-> loc, result |-> result, log |-> log]]
  /\ UNCHANGED <<cache, up>>

InitRace ==
  /\ cache \in [Users -> CachedVectors]
  /\ pc = "idle"
  /\ loc = NoLoc
  /\ result = NoResult
  /\ log = NoLog
  /\ up \in {Some(w) : w \in RaceWorlds}
  /\ prev \in {[NoRace EXCEPT !.start = cache[u]] : u \in Users}

NextRace ==
  \/ \E kind \in CallKinds, u \in Users, limit \in 1..MaxLimit : RaceBegin(kind, u, limit)
  \/ RaceStep
  \/ RaceSwitch

SpecRace == InitRace /\ [][NextRace]_vars

\* the two calls of the race
RaceCalls == {[pc |-> pc, loc |-> loc, result |-> result, log |-> log], prev.other}

BothReturned == \A c \in RaceCalls : c.pc \in Returned

\* what recommend(u, limit) returns on the upstream when no other call
\* runs: on the cache as it was before the two calls
AloneResult(u, limit) ==
  recommend_on([St EXCEPT !.cache = [v \in Users |-> IF v = u THEN prev.start ELSE NONE]],
               The(up), u, limit).result

\* once both calls have returned, the cache holds the entry of the last
\* write that went through, whole, or its entry from before the calls
LastWriteWins ==
  BothReturned =>
    \A c \in RaceCalls :
      c.loc.user_id # 0 =>
        cache[c.loc.user_id] = IF IsNone(prev.last) THEN prev.start
                               ELSE set_user_vector(The(prev.last), cache_ttl_argument)

\* C23 (as stated): once both calls have returned the cache holds the whole
\* vector of the last write, and each recommend call returned what it
\* returns when it runs alone, wherever the other call's write fell.
C23_LastWriteWinsAndResultsIgnoreWrites ==
  /\ LastWriteWins
  /\ BothReturned =>
       \A c \in RaceCalls :
         c.pc = "done" => c.result = AloneResult(c.loc.user_id, c.loc.limit)

\* --------------------------------- the catalog lookup of the three calls
\* recommend (both branches), search_products and get_similar_products at
\* their get_products_by_ids await, holding the ids that survived, on a
\* catalog that answers with records of any of them in any order.

\* the ids a call holds at the lookup: distinct, in similarity order
SurvivingIds ==
  {s \in SeqUpTo(1..MaxCatalog, MaxCatalog) : s # <<>> /\ Distinct(s)}

\* get_products_by_ids(ids) answers: records of any subset, in any order
CatalogAnswers(ids) ==
  {Ok([i \in 1..Len(t) |-> Product(t[i])]) :
     t \in {r \in SeqUpTo(Range(ids), Len(ids)) : Distinct(r)}}

CatalogWorlds ==
  UNION {[ids : {ids}, answer : CatalogAnswers(ids)] : ids \in SurvivingIds}

\* _personalized_recommend_with_cache at the lookup
at_catalog(st, ids) ==
  [st EXCEPT !.pc = "p_catalog",
             !.loc = [NoLoc EXCEPT !.user_id = 1, !.limit = Len(ids), !.filtered_ids = ids]]

\* the cache branch of recommend at the lookup
at_hit_catalog(st, ids) ==
  [st EXCEPT !.pc = "r_hit_catalog",
             !.loc = [NoLoc EXCEPT !.user_id = 1, !.limit = Len(ids), !.filtered_ids = ids]]

\* search_products at the lookup
at_search_catalog(st, ids) ==
  [st EXCEPT !.pc = "s_catalog",
             !.loc = [NoSearchLoc EXCEPT !.op = "search", !.page_number = 1,
                                         !.page_size = Len(ids), !.ids = ids,
                                         !.total = Len(ids)]]

\* get_similar_products at the lookup
at_similar_catalog(st, ids) ==
  [st EXCEPT !.pc = "m_catalog",
             !.loc = [NoSearchLoc EXCEPT !.op = "similar", !.limit = Len(ids), !.ids = ids]]

LookupOfRecommend ==
  /\ pc = "idle"
  /\ Apply(step_catalog(at_catalog(St, The(up).ids), The(up).answer))

LookupOfCacheBranch ==
  /\ pc = "idle"
  /\ Apply(step_hit_catalog(at_hit_catalog(St, The(up).ids), The(up).answer))

LookupOfSearch ==
  /\ pc = "idle"
  /\ Apply(step_search_catalog(at_search_catalog(St, The(up).ids), The(up).answer))

LookupOfSimilar ==
  /\ pc = "idle"
  /\ Apply(step_similar_catalog(at_similar_catalog(St, The(up).ids), The(up).answer))

\* recommend goes on from an empty lookup to the hot products, whose fetch
\* answers in any way
HotAfterLookup(resp) ==
  /\ pc = "r_hot"
  /\ Apply(step_hot(St, resp))

\* the hot-products fetch raised: the handler of recommend fetches again
ExceptAfterLookup(resp) ==
  /\ pc = "r_except"
  /\ Apply(step_except(St, resp))

InitCatalog ==
  /\ cache = [u \in Users |-> NONE]
  /\ pc = "idle"
  /\ loc = NoLoc
  /\ result = NoResult
  /\ log = NoLog
  /\ up \in {Some(w) : w \in CatalogWorlds}
  /\ prev = NoPrev

NextCatalog ==
  \/ LookupOfRecommend
  \/ LookupOfCacheBranch
  \/ LookupOfSearch
  \/ LookupOfSimilar
  \/ \E resp \in HotResponses : HotAfterLookup(resp)
  \/ \E resp \in HotResponses : ExceptAfterLookup(resp)

SpecCatalog == InitCatalog /\ [][NextCatalog]_vars

\* the records of the surviving ids the catalog answered with, in the
\* order of the surviving ids
StatedRecords ==
  LET have == {The(up).answer.val[i].id : i \in 1..Len(The(up).answer.val)}
      kept == Keep(The(up).ids, have)
  IN  [i \in 1..Len(kept) |-> Product(kept[i])]

\* C24 (as stated): whatever records the catalog answers with, in whatever
\* order, recommend, search_products and get_similar_products return the
\* records of the surviving ids it answered with, in similarity order.
C24_ReturnsCatalogSubsequence ==
  /\ (pc = "done") => result.products = StatedRecords
  /\ (pc \in {"s_done", "m_done"}) => result.data = StatedRecords

\* C24 (amended): search_products and get_similar_products return the
\* records of the surviving ids the catalog answered with, in similarity
\* order, and so does recommend, tagged "personalized", when there is at
\* least one. When the catalog answers with none, recommend goes on: the
\* cache branch to the signal gather, the fused branch to the hot-products
\* fetch. It then returns the hot list as "cold_start" when that list is
\* not empty and the empty list as "fallback" when it is; when the fetch
\* raises, the handler fetches again and returns that list, or the empty
\* list when the second fetch raises too, as "fallback". The lookup never
\* makes a call raise.
C24_ReturnsCatalogSubsequenceOrGoesOn ==
  /\ (pc \in {"s_done", "m_done"}) => result.data = StatedRecords
  /\ (pc = "done" /\ StatedRecords # <<>>) =>
       /\ result = [products |-> StatedRecords, strategy |-> "personalized"]
       /\ log.hot_calls = 0
  /\ (pc = "done" /\ StatedRecords = <<>>) =>
       LET hot == The(log.hot)
           list == IF hot.ok THEN hot.val ELSE <<>>
       IN  /\ result.products = list
           /\ result.strategy =
                IF log.hot_calls = 1 /\ list # <<>> THEN "cold_start" ELSE "fallback"
           /\ log.hot_calls = IF log.excepted THEN 2 ELSE 1
  /\ (pc \in {"r_hot", "r_gather_start", "r_except"}) => StatedRecords = <<>>
  /\ (pc = "r_except") => (log.hot_calls = 1 /\ ~The(log.hot).ok)
  /\ pc # "raised"

\* C24 witness: search_products held ids 2, 1, 3, the catalog answered with
\* the records of 3 and 2 in that order, and the page is 2, 3.
C24_Witness ==
  /\ pc = "s_done"
  /\ The(up).ids = <<2, 1, 3>>
  /\ The(up).answer = Ok(<<Product(3), Product(2)>>)
  /\ result.data = <<Product(2), Product(3)>>

\* ------------------------------- SearchService.rerank_product_id_by_semantics
\* One call of rerank_product_id_by_semantics(keyword, limit, product_ids),
\* step by step, on one embedding provider and one index. product_ids is
\* NONE when the caller leaves it out.

NoRerankLoc == [limit |-> 0, product_ids |-> NONE]

rerank_begin(st, limit, product_ids) ==
  [st EXCEPT !.pc = "k_embed",
             !.loc = [NoRerankLoc EXCEPT !.limit = limit, !.product_ids = product_ids],
             !.result = [ids |-> <<>>]]

\* steps 1 to 3: embed_query, `if not search_vector`, and the log line that
\* takes len(product_ids)
step_rerank_embed(st, resp) ==
  IF ~resp.ok THEN [st EXCEPT !.pc = "raised"]
  ELSE IF resp.val = <<>> THEN [st EXCEPT !.pc = "k_done"]
  ELSE IF IsNone(st.loc.product_ids) THEN [st EXCEPT !.pc = "raised"]
  ELSE [st EXCEPT !.pc = "k_search"]

\* limit=min(limit, len(product_ids)) if product_ids else limit
rerank_limit(limit, product_ids) ==
  IF product_ids # <<>> THEN Min(limit, Len(product_ids)) ELSE limit

\* the hit satisfies expr: "product_id in [...]", or "" for no filter
rerank_expr(hit, product_ids) ==
  product_ids = <<>> \/ hit.product_id \in Range(product_ids)

\* step 4: the ids of the hits, first seen first; 0 stands for a hit
\* without product_id
ranked_ids(hits) ==
  Dedup(Drop([i \in 1..Len(hits) |-> hits[i].product_id], {0}))

\* collection.search and step 4
step_rerank_search(st, resp) ==
  IF ~resp.ok THEN [st EXCEPT !.pc = "raised"]
  ELSE [st EXCEPT !.pc = "k_done", !.result = [ids |-> ranked_ids(resp.val)]]

RerankFilters == {NONE, Some(<<>>), Some(<<1>>), Some(<<2, 1>>)}

RerankWorlds ==
  [ranking : Rankings \ {Dozen}, embed : {Raised, Ok(<<>>), Ok(KeywordVec)},
   index_ok : BOOLEAN]

\* collection.load() and collection.search(expr, limit) on the ranking of
\* the world w; an unreachable index raises
rerank_search_in(w, product_ids, limit) ==
  IF ~w.index_ok THEN Raised
  ELSE Ok(Take(SelectSeq(w.ranking, LAMBDA h : rerank_expr(h, product_ids)), limit))

RerankBegin(limit, product_ids) ==
  /\ pc = "idle"
  /\ Apply(rerank_begin(St, limit, product_ids))

RerankEmbed ==
  /\ pc = "k_embed"
  /\ Apply(step_rerank_embed(St, The(up).embed))

RerankSearch ==
  /\ pc = "k_search"
  /\ Apply(step_rerank_search(
             St, rerank_search_in(The(up), The(loc.product_ids),
                                  rerank_limit(loc.limit, The(loc.product_ids)))))

InitRerank ==
  /\ cache = [u \in Users |-> NONE]
  /\ pc = "idle"
  /\ loc = NoRerankLoc
  /\ result = NoResult
  /\ log = NoLog
  /\ up \in {Some(w) : w \in RerankWorlds}
  /\ prev = NoPrev

NextRerank ==
  \/ \E limit \in 1..MaxLimit, product_ids \in RerankFilters : RerankBegin(limit, product_ids)
  \/ RerankEmbed
  \/ RerankSearch

SpecRerank == InitRerank /\ [][NextRerank]_vars

\* the product ids of the ranking, best first
RankedPids == [i \in 1..Len(The(up).ranking) |-> The(up).ranking[i].product_id]

\* C25 (as stated): on an embedding provider and an index that answer,
\* rerank_product_id_by_semantics returns, with product_ids given and with
\* product_ids left out alike: at most `limit` distinct ids, in the order
\* of the ranking, all among product_ids when that filter is not empty; and
\* the empty list when the keyword's embedding is empty.
C25_RerankReturnsRankedIds ==
  /\ (pc = "raised") => (~The(up).embed.ok \/ ~The(up).index_ok)
  /\ (pc = "k_done") =>
       /\ Len(result.ids) <= loc.limit
       /\ Distinct(result.ids)
       /\ result.ids = Dedup(Keep(RankedPids, Range(result.ids)))
       /\ (~IsNone(loc.product_ids) /\ The(loc.product_ids) # <<>>)
            => Range(result.ids) \subseteq Range(The(loc.product_ids))
       /\ (The(up).embed = Ok(<<>>)) => result.ids = <<>>

\* C26: a "personalized" result of recommend holds no product twice and at
\* most `limit` products, whatever hits the vector search answered with,
\* repeated ids included.
C26_PersonalizedIsDistinctWithinLimit ==
  (pc = "done" /\ result.strategy = "personalized") =>
    /\ Distinct([i \in 1..Len(result.products) |-> id_int(result.products[i])])
    /\ Len(result.products) <= loc.limit

\* C26 witness: the vector search answered with a repeated id, and the
\* personalized result holds the one product.
C26_Witness ==
  /\ pc = "done"
  /\ result.strategy = "personalized"
  /\ log.repeated
  /\ Len(result.products) = 1
  /\ loc.limit = MaxLimit

\* ------------------------------ the gather of recommend in every order
\* One call of recommend on one upstream, step by step, the three fetches
\* of the gather completing in any order; prev holds what the call returns
\* when they complete in the order they were handed to the gather, and the
\* fetch that completed last.

OrderWorlds ==
  {w \in Upstreams :
     /\ w.embed.ok
     /\ w.query_ok
     /\ w.search = Ok(<<1, 2>>)
     /\ w.purchases = Ok(<<>>)
     /\ w.catalog_ok
     /\ w.catalog_has = ProductIds
     /\ w.hot # Ok(<<>>)}

OrderBegin(u, limit) ==
  /\ pc = "idle"
  /\ prev = NoPrev
  /\ LET n == begin_recommend(St, u, limit)
     IN  /\ cache' = n.cache
         /\ pc' = n.pc
         /\ loc' = n.loc
         /\ result' = n.result
         /\ log' = n.log
  /\ prev' = [NoPrev EXCEPT !.result = recommend_on(St, The(up), u, limit).result,
                            !.user_id = u,
                            !.limit = limit]
  /\ UNCHANGED up

\* one of the fetches still in flight completes
OrderFetch(f) ==
  /\ pc = "r_gather"
  /\ f \in loc.pending
  /\ LET n == CASE f = "interests" -> step_fetch_interests(St, The(up).interests)
                [] f = "grouped"   -> step_fetch_grouped(St, The(up).grouped)
                [] f = "keywords"  -> step_fetch_keywords(St, The(up).keywords)
     IN  /\ cache' = n.cache
         /\ pc' = n.pc
         /\ loc' = n.loc
         /\ result' = n.result
         /\ log' = n.log
  /\ prev' = [prev EXCEPT !.joined = f]
  /\ UNCHANGED up

\* any other step of the call
OrderStep ==
  /\ pc \notin {"idle", "r_gather", "done", "raised"}
  /\ Apply(step_on(St, The(up)))

InitOrder ==
  /\ cache \in [Users -> CachedVectors]
  /\ pc = "idle"
  /\ loc = NoLoc
  /\ result = NoResult
  /\ log = NoLog
  /\ up \in {Some(w) : w \in OrderWorlds}
  /\ prev = NoPrev

NextOrder ==
  \/ \E u \in Users, limit \in 1..MaxLimit : OrderBegin(u, limit)
  \/ \E f \in SignalFetches : OrderFetch(f)
  \/ OrderStep

SpecOrder == InitOrder /\ [][NextOrder]_vars

\* C27: the sufficiency test is made with none of the three fetches still
\* in flight and each of them completed, and the call returns what it
\* returns when the fetches complete in the order they were handed over.
C27_JoinedBeforeSufficiencyAndOrderFree ==
  /\ (pc = "r_sufficiency") =>
       /\ loc.pending = {}
       /\ log.sig.interests_count >= 0
       /\ log.sig.behavior_count >= 0
       /\ log.sig.search_keyword_count >= 0
  /\ (pc = "done") => result = prev.result

\* C27 witness: the interests fetch, handed over first, completed last,
\* the behaviours alone sufficed, and the call returned "personalized".
C27_Witness ==
  /\ pc = "done"
  /\ result.strategy = "personalized"
  /\ prev.joined = "interests"
  /\ ~log.hit
  /\ The(up).interests = Ok(<<>>)
  /\ The(up).keywords = Ok(<<>>)
  /\ result = prev.result

\* C28: once the fusion, entered after the sufficiency test passed, has
\* returned absent, the call writes nothing to the cache and makes no
\* vector search: it goes to the hot products and returns "cold_start" or
\* "fallback".
C28_AbsentFusionIsColdStart ==
  (log.fuse = "absent") =>
    /\ "fuse" \in log.invoked
    /\ pc \in {"r_hot", "r_except", "done"}
    /\ log.sets = <<>>
    /\ ~log.hit => "retrieve" \notin log.invoked
    /\ (pc = "done") => result.strategy \in {"cold_start", "fallback"}

\* C28 witness: the fusion was entered, a call of it raised, it returned
\* absent, and the call returned the hot products as "cold_start".
C28_Witness ==
  /\ pc = "done"
  /\ log.fuse = "absent"
  /\ "fuse" \in log.invoked
  /\ ~log.hit
  /\ log.failed = {"fuse"}
  /\ log.sets = <<>>
  /\ "retrieve" \notin log.invoked
  /\ result.strategy = "cold_start"

\* the embedding asked for the interest text, or for the search-keyword
\* text, raised or came back empty
InvalidInterest ==
  /\ The(up).interests # <<>>
  /\ ~The(up).embed_interest.ok \/ The(up).embed_interest.val = <<>>

InvalidKeywords ==
  /\ The(up).keywords # <<>>
  /\ ~The(up).embed_keywords.ok \/ The(up).embed_keywords.val = <<>>

\* C29: an embedding that raises or comes back empty makes its sub-vector
\* absent and nothing more: _compute_user_vector goes through its steps and
\* returns the fusion of the sub-vectors that remain.
C29_InvalidVectorIsAbsentSignal ==
  /\ pc \notin {"raised", "r_except"}
  /\ (pc = "p_keywords" /\ InvalidInterest) => IsNone(loc.interest_vector)
  /\ (pc \in {"p_cache_set", "r_hot"}) =>
       log.fused = StatedFusion(SubBehavior,
                                IF InvalidInterest THEN NONE ELSE SubInterest,
                                IF InvalidKeywords THEN NONE ELSE SubSearch)

\* C29 witness: the interest embedding raised, the search-keyword embedding
\* came back empty, and the fusion returned the behaviour vector alone.
C29_Witness ==
  /\ pc = "p_cache_set"
  /\ InvalidInterest
  /\ ~The(up).embed_interest.ok
  /\ InvalidKeywords
  /\ The(up).embed_keywords = Ok(<<>>)
  /\ ~IsNone(SubBehavior)
  /\ log.fused = SubBehavior

\* ------------------------------------- the search keywords, to the text
\* get_search_keywords over what the behaviour store holds, then
\* _get_user_vector_from_keywords, on an embedding provider whose vector
\* depends on the text it is given.

Letters == <<"a", "b", "c", "d", "e", "f", "g", "h">>

\* s with x put in after its first n entries
InsertAt(s, n, x) == SubSeq(s, 1, n) \o <<x>> \o SubSeq(s, n + 1, Len(s))

\* what the store may hold: distinct keywords, most recent first or last,
\* alone or with one blank, padded or repeated keyword among them
StoredKeywords ==
  LET plain == UNION {{Take(Letters, k), Reverse(Take(Letters, k))} : k \in 0..MaxKeywords}
  IN  plain \cup UNION {{InsertAt(s, n, x) : n \in 0..Len(s), x \in {"", " a", "a", "c"}} :
                         s \in plain}

\* the embedding provider: a vector that depends on the text
embed_text(text) == Ok(Vec(Len(text)))

NoKeywordLoc == [keywords |-> <<>>, query_text |-> NONE, user_vector |-> NONE]

\* get_search_keywords returns
step_keywords_fetch(st, resp) ==
  [st EXCEPT !.pc = "w_text",
             !.loc = [NoKeywordLoc EXCEPT !.keywords = get_search_keywords(resp)]]

\* _get_user_vector_from_keywords: `if not keywords`, the text, embed_query
step_keywords_embed(st) ==
  IF st.loc.keywords = <<>> THEN [st EXCEPT !.pc = "w_done"]
  ELSE LET query_text == join(recent_keywords(st.loc.keywords))
       IN  [st EXCEPT !.pc = "w_done",
                      !.loc.query_text = Some(query_text),
                      !.loc.user_vector =
                         get_user_vector_from_keywords(recent_keywords(st.loc.keywords),
                                                       embed_text(query_text))]

KeywordsFetch ==
  /\ pc = "idle"
  /\ Apply(step_keywords_fetch(St, Ok(The(up).stored)))

KeywordsEmbed ==
  /\ pc = "w_text"
  /\ Apply(step_keywords_embed(St))

InitKeywords ==
  /\ cache = [u \in Users |-> NONE]
  /\ pc = "idle"
  /\ loc = NoKeywordLoc
  /\ result = NoResult
  /\ log = NoLog
  /\ up \in {Some([stored |-> s]) : s \in {t \in StoredKeywords : Len(t) <= MaxKeywords + 1}}
  /\ prev = NoPrev

NextKeywords == KeywordsFetch \/ KeywordsEmbed

SpecKeywords == InitKeywords /\ [][NextKeywords]_vars

\* the stored keywords without the blank ones, padding removed, each at its
\* first occurrence
RECURSIVE FirstOccurrences(_, _)
FirstOccurrences(stored, seen) ==
  IF stored = <<>> THEN <<>>
  ELSE LET k == IF Head(stored) = " a" THEN "a" ELSE Head(stored)
       IN  IF k = "" \/ k \in seen THEN FirstOccurrences(Tail(stored), seen)
           ELSE <<k>> \o FirstOccurrences(Tail(stored), seen \cup {k})

\* the first five of them, with a space between
RECURSIVE Spaced(_)
Spaced(ks) ==
  IF ks = <<>> THEN "" ELSE IF Len(ks) = 1 THEN ks[1] ELSE ks[1] \o " " \o Spaced(Tail(ks))

StatedText ==
  LET ks == FirstOccurrences(The(up).stored, {})
  IN  Spaced(SubSeq(ks, 1, IF Len(ks) < 5 THEN Len(ks) ELSE 5))

\* C31: the text embedded for the search sub-vector is the first five of
\* the user's keywords, blank ones skipped and each taken at its first
\* occurrence, in the order they came; the vector is the embedding of that
\* text, so a sixth keyword has no part in it.
C31_TextIsFirstFiveDistinct ==
  (pc = "w_done") =>
    IF FirstOccurrences(The(up).stored, {}) = <<>>
    THEN IsNone(loc.query_text) /\ IsNone(loc.user_vector)
    ELSE /\ loc.query_text = Some(StatedText)
         /\ loc.user_vector = Some(embed_text(StatedText).val)

\* C31 witness: the store held a to f with "a" repeated among them, and the
\* text embedded was "a b c d e": no second "a", no "f".
C31_Witness ==
  /\ pc = "w_done"
  /\ The(up).stored = <<"a", "b", "a", "c", "d", "e", "f">>
  /\ loc.query_text = Some("a b c d e")
  /\ loc.user_vector = Some(Vec(9))

\* ------------------------------------------------------------ C32
\* C32: a recommend result tagged "personalized" or "cold_start" holds at
\* least one product: an empty retrieval, from the cached vector or from a
\* freshly fused one, is not returned as "personalized", and an empty hot
\* list is not returned as "cold_start".
C32_TaggedResultIsNonEmpty ==
  (pc = "done" /\ result.strategy \in {"personalized", "cold_start"})
    => result.products # <<>>

\* the cached vector was searched and the catalog lookup of the cache branch
\* kept no product; the call went on, the hot list came back empty, and the
\* empty result is tagged "fallback"
C32_Witness ==
  /\ pc = "done"
  /\ log.hit
  /\ "retrieve" \in log.invoked
  /\ log.kept = {}
  /\ ~log.excepted
  /\ ~IsNone(log.hot) /\ The(log.hot) = Ok(<<>>)
  /\ result = [products |-> <<>>, strategy |-> "fallback"]

\* ------------------------------------------------------------ SpecFrame
\* Two calls, each recommend or refresh_user_vector, each for one of two
\* users, interleaved at their awaits as in SpecRace, over a cache that
\* holds an entry per user. The keys are f"{prefix}{user_id}"
\* (redis_client.py:72, :97, :115), one per user id.
\* RedisClient.delete_user_vector has no caller in the service: it is the
\* step of another holder of the client, taken between any two awaits.
FrameUsers == {1, 2}

\* the upstreams of SpecRace on which the vector search finds both products
FrameWorlds == {w \in RaceWorlds : w.search = Ok(<<1, 2>>)}

\* delete_user_vector(u) is called
FrameDelete(u, fails) ==
  /\ cache' = [cache EXCEPT ![u] = delete_user_vector(@, fails)]
  /\ prev' = [prev EXCEPT !.deleted = IF fails THEN @ ELSE @ \cup {u}]
  /\ UNCHANGED <<pc, loc, result, log, up>>

\* the cache as it was before the two calls
StartCache == The(prev.start)

InitFrame ==
  /\ cache \in [FrameUsers -> CachedVectors]
  /\ pc = "idle"
  /\ loc = NoLoc
  /\ result = NoResult
  /\ log = NoLog
  /\ up \in {Some(w) : w \in FrameWorlds}
  /\ prev = [NoRace EXCEPT !.start = Some(cache)]

NextFrame ==
  \/ \E kind \in CallKinds, u \in FrameUsers : RaceBegin(kind, u, 1)
  \/ RaceStep
  \/ RaceSwitch
  \/ \E u \in FrameUsers, fails \in BOOLEAN : FrameDelete(u, fails)

SpecFrame == InitFrame /\ [][NextFrame]_vars

\* the users a call has been entered for
Callers == {c.loc.user_id : c \in RaceCalls} \ {0}

\* C33: recommend(u, ...) and refresh_user_vector(u) touch the cache entry
\* keyed by u only: whatever calls for other users have run, in whatever
\* interleaving, the entry of a user no call was entered for is the entry
\* from before the calls, and an entry the cache held before the calls is
\* not deleted by any of them: an entry is gone only when
\* delete_user_vector, which none of them calls, was called for its user.
C33_OnlyTheCallersEntryIsTouched ==
  \A v \in FrameUsers :
    /\ v \notin Callers =>
         cache[v] = IF v \in prev.deleted THEN NONE ELSE StartCache[v]
    /\ (~IsNone(StartCache[v]) /\ v \notin prev.deleted) => ~IsNone(cache[v])

\* both calls were for user 1 and have returned, one of them wrote the
\* vector it fused over the stale entry of user 1, and the stale entry of
\* user 2 is in the cache as it was
C33_Witness ==
  /\ BothReturned
  /\ Callers = {1}
  /\ prev.deleted = {}
  /\ StartCache = [v \in FrameUsers |-> Some([vector |-> StaleVec, ttl |-> vector_cache_ttl])]
  /\ ~IsNone(prev.last)
  /\ cache[1] = set_user_vector(The(prev.last), cache_ttl_argument)
  /\ cache[1] # StartCache[1]
  /\ cache[2] = StartCache[2]

\* ------------------------------------------------------------ C34
\* C34: a recommend call served from the cached vector (a hit whose
\* retrieval kept at least one product) issues no cache write: the entry,
\* vector and lifetime, is the one the cache held when the call was
\* entered, unless the entry was lost meanwhile.
C34_HitIssuesNoWrite ==
  (pc = "done" /\ log.path = "cache") =>
    /\ log.sets = <<>>
    /\ cache[loc.user_id] \in {prev.entry, NONE}

\* the second of two calls in succession was served from the cached vector,
\* as the first was, and the entry is in the cache with the lifetime it had
C34_Witness ==
  /\ pc = "done"
  /\ prev.calls = 2
  /\ prev.first.log.path = "cache"
  /\ log.hit
  /\ log.path = "cache"
  /\ log.sets = <<>>
  /\ result.strategy = "personalized"
  /\ result.products # <<>>
  /\ loc.user_vector = Some(StaleVec)
  /\ cache[loc.user_id] = Some([vector |-> StaleVec, ttl |-> vector_cache_ttl])

\* ------------------------------------------------------------ SpecKeep
\* Two calls of refresh_user_vector for one user, interleaved at their
\* awaits, on every combination of answers of the signal fetches and of
\* the two embedding providers; the cache from before the calls is kept in
\* prev.start, and delete_user_vector may be called between any two
\* awaits. A raise of a fetch is isolated by the gather, a raise of a
\* provider is caught inside _compute_user_vector: both reach the decision
\* to write as a missing signal or as the absent fusion.
KeepWorlds ==
  {w \in Upstreams :
     /\ w.search = Ok(<<1>>)
     /\ w.purchases = Ok(<<>>)
     /\ w.catalog_ok
     /\ w.catalog_has = ProductIds
     /\ w.hot = Ok(<<>>)}

InitKeep ==
  /\ cache \in [Users -> CachedVectors]
  /\ pc = "idle"
  /\ loc = NoLoc
  /\ result = NoResult
  /\ log = NoLog
  /\ up \in {Some(w) : w \in KeepWorlds}
  /\ prev = [NoRace EXCEPT !.start = Some(cache)]

NextKeep ==
  \/ \E u \in Users : RaceBegin("refresh", u, 1)
  \/ RaceStep
  \/ RaceSwitch
  \/ \E u \in Users, fails \in BOOLEAN : FrameDelete(u, fails)

SpecKeep == InitKeep /\ [][NextKeep]_vars

\* the call c has returned without a vector to write: what the gather
\* brought failed the sufficiency test, or the fusion reported absent
ReturnedWithoutVector(c) ==
  /\ c.pc = "f_done"
  /\ \/ /\ c.log.sig.interests_count = 0
        /\ c.log.sig.behavior_count < min_behavior_count
        /\ c.log.sig.search_keyword_count = 0
     \/ c.log.fuse = "absent"

\* C35: refresh_user_vector(u) leaves the entry of u as it found it,
\* neither overwritten nor deleted, when the user's signals fail the
\* sufficiency test, when the fusion reports absent, or when what raised
\* before the write left the call in one of these two cases: the entry is
\* gone only when delete_user_vector, which the call does not make, was
\* called for u.
C35_RefreshWithoutVectorKeepsEntry ==
  \A c \in RaceCalls :
    ReturnedWithoutVector(c) =>
      /\ c.log.sets = <<>>
      /\ cache[c.loc.user_id] = IF c.loc.user_id \in prev.deleted THEN NONE
                                ELSE StartCache[c.loc.user_id]

\* the embedding provider raised inside the fusion, which reported absent;
\* the call has returned and the stale entry is in the cache as it was
C35_Witness ==
  /\ pc = "f_done"
  /\ log.fuse = "absent"
  /\ "fuse" \in log.failed
  /\ log.sets = <<>>
  /\ prev.deleted = {}
  /\ StartCache[loc.user_id] = Some([vector |-> StaleVec, ttl |-> vector_cache_ttl])
  /\ cache[loc.user_id] = StartCache[loc.user_id]

\* ------------------------------------------------------------ C36
\* C36: every page search returns, on the failure paths too, holds at most
\* page_size records and at most total records, its total is at most
\* page_number * page_size, and its page_number and page_size are those of
\* the request.
C36_PageIsWithinItsBounds ==
  (pc = "s_done" /\ loc.op = "search") =>
    /\ Len(result.data) <= result.page_size
    /\ Len(result.data) <= result.total
    /\ result.total <= result.page_number * result.page_size
    /\ result.page_number = loc.page_number
    /\ result.page_size = loc.page_size

\* the second page of five of a ranking of twelve: the page is full and
\* the total is what the two pages hold
C36_Witness ==
  /\ pc = "s_done"
  /\ loc.op = "search"
  /\ ~loc.failed
  /\ result.page_number = 2
  /\ result.page_size = 5
  /\ Len(result.data) = 5
  /\ result.total = 10

\* --------------------------------------------------------- SpecBehavior
\* _get_user_vector_from_behaviors on its own: the behaviours refer to up
\* to three products and the vector index holds an embedding for some of
\* them; collection.query answers with the items it holds, in id order or
\* in the reverse order.
IndexedIds == {1, 2, 3}

ReferencePool ==
  {<<"view", 1>>, <<"purchase", 1>>, <<"like", 2>>, <<"view", 2>>, <<"add_cart", 3>>}

BehaviorWorlds ==
  [grouped : {Group(recs) : recs \in SeqUpTo(ReferencePool, MaxFuseRecs)},
   stored : SUBSET IndexedIds,
   reversed : BOOLEAN]

\* collection.query(product_id in ids) on an index that holds the
\* embeddings of the products in stored
query_stored(w, ids) ==
  LET s == IF w.reversed THEN Reverse(Ascending(ids \cap w.stored))
           ELSE Ascending(ids \cap w.stored)
  IN  Ok([i \in 1..Len(s) |-> [product_id |-> s[i],
                                embedding |-> ProductEmbedding(s[i])]])

\* the call of _get_user_vector_from_behaviors
step_behavior_vector(st, resp) ==
  [st EXCEPT !.pc = "b_done",
             !.loc.behavior_vector =
                get_user_vector_from_behaviors(st.loc.grouped_behaviors, resp)]

InitBehavior ==
  /\ up \in {Some(w) : w \in BehaviorWorlds}
  /\ cache = [u \in Users |-> NONE]
  /\ pc = "b_query"
  /\ loc = [NoLoc EXCEPT !.grouped_behaviors = The(up).grouped]
  /\ result = NoResult
  /\ log = NoLog
  /\ prev = NoPrev

BehaviorVector ==
  /\ pc = "b_query"
  /\ Apply(step_behavior_vector(
             St, query_stored(The(up), all_product_ids(loc.grouped_behaviors))))

NextBehavior == BehaviorVector

SpecBehavior == InitBehavior /\ [][NextBehavior]_vars

\* the products of the behaviours the index holds an embedding for
Embedded == all_product_ids(The(up).grouped) \cap The(up).stored

RECURSIVE WeightedSumOver(_, _)
\* the sum of embedding * max_weight over the products in S
WeightedSumOver(g, S) ==
  LET x == CHOOSE y \in S : TRUE
      term == VScale(ProductEmbedding(x), max_weight(g, x))
  IN  IF S = {x} THEN term ELSE VAdd(term, WeightedSumOver(g, S \ {x}))

RECURSIVE WeightOver(_, _)
\* the sum of max_weight over the products in S
WeightOver(g, S) ==
  IF S = {} THEN RZero
  ELSE LET x == CHOOSE y \in S : TRUE
       IN  RAdd(max_weight(g, x), WeightOver(g, S \ {x}))

\* C37: a product the index returns no embedding for adds to neither the
\* weighted sum nor the weight total of the behaviour vector: the vector is
\* the sum of embedding * max_weight over the products with a returned
\* embedding, divided by the sum of max_weight over those products, and it
\* is absent when no product of the behaviours has an embedding.
C37_OnlyEmbeddedProductsCount ==
  pc = "b_done" =>
    loc.behavior_vector =
      IF Embedded = {} THEN NONE
      ELSE Some(VDiv(WeightedSumOver(The(up).grouped, Embedded),
                     WeightOver(The(up).grouped, Embedded)))

\* the behaviours refer to products 1 and 3 and the index holds product 1
\* only: the vector is the embedding of product 1, whatever its weight
C37_Witness ==
  /\ pc = "b_done"
  /\ all_product_ids(The(up).grouped) = {1, 3}
  /\ The(up).stored = {1}
  /\ loc.behavior_vector = Some(ProductEmbedding(1))

====
